---- MODULE Spec2Model ----
(***************************************************************************)
(* Model of the interpolant minimizer (Shell/InterpolantMinimizer.cpp), of *)
(* the clausify executable (vclausify.cpp), of unification with            *)
(* abstraction as UnitTests/tUnificationWithAbstraction.cpp drives it, and *)
(* of the left / right marks of a unit (Kernel/Unit.hpp).                  *)
(***************************************************************************)
EXTENDS Integers, Sequences, FiniteSets, TLC

VARIABLES
  parents,          \* InferenceStore: unit -> sequence of premises
  unitColor,        \* Unit::getColor()
  inheritedColor,   \* Unit::inheritedColor()
  vdebug,           \* the build evaluates ASS(...) (VDEBUG)
  pc,               \* position inside getInterpolant
  infos,            \* InterpolantMinimizer::_infos
  stack,            \* the traversal stack of traverse()
  unitBody,         \* the clause or formula of each unit
  config,           \* _optTarget, _noSlicing, _showStats
  resBenchmark,     \* _resBenchmark: the formulas added so far
  atoms,            \* _formulaAtomIds, _atomIds, _atomWeights, _unitsById, the splitter's indexes
  solver,           \* YicesSolver: result kind and assignment
  slicedOff,        \* the set handed to Interpolants
  out,              \* what getInterpolant has done outside: reads of the assignment, output, generator call
  atomCalls,        \* the units addAtomImplicationFormula has been called for
  clausify,         \* the clausify executable: position in main, return value, output
  uwa,              \* unification with abstraction: options, the term index, the last retrieval, the unifier
  marks             \* Unit::_left and Unit::_right of each unit, the calls of markLeft / markRight

inputVars == <<parents, unitColor, inheritedColor, vdebug, unitBody, config>>

traverseVars == <<pc, infos, stack>>

minimizeVars == <<resBenchmark, atoms, solver, slicedOff, out>>

vars == <<inputVars, traverseVars, minimizeVars, atomCalls, clausify, uwa, marks>>

\* ------------------------------------------------------------------ bounds
NumUnits == 3

Units == 1..NumUnits

\* the refutation is the last derived unit
Refutation == NumUnits

\* no unifier and no term index have been made
NoUwa == [mode |-> "none"]

\* ------------------------------------------------------------------ colors
COLOR_TRANSPARENT == "TRANSPARENT"
COLOR_LEFT == "LEFT"
COLOR_RIGHT == "RIGHT"
COLOR_INVALID == "INVALID"

Colors == {COLOR_TRANSPARENT, COLOR_LEFT, COLOR_RIGHT}

TRANSPARENT_PARENTS == "TRANSPARENT_PARENTS"
HAS_LEFT_PARENT == "HAS_LEFT_PARENT"
HAS_RIGHT_PARENT == "HAS_RIGHT_PARENT"

\* ------------------------------------------------------------------ proof DAG
\* premise lists of an inference: no premise (input), one or two premises
PremiseLists(set) ==
  {<<>>} \cup {<<a>> : a \in set} \cup {<<a, b>> : a \in set, b \in set}

\* parents are always earlier-numbered units
ProofDags ==
  {p \in [Units -> PremiseLists(Units)] :
     \A u \in Units : \A i \in 1..Len(p[u]) : p[u][i] < u}

\* an inherited color is the color of the block an input unit was declared in;
\* a unit with symbols of one color is not declared in the block of the other
InheritedColors(p, color) ==
  {ic \in [Units -> {COLOR_INVALID, COLOR_LEFT, COLOR_RIGHT}] :
     \A u \in Units :
       ic[u] # COLOR_INVALID =>
         /\ p[u] = <<>>
         /\ color[u] \in {COLOR_TRANSPARENT, ic[u]}}

ParentSet(u) == {parents[u][i] : i \in 1..Len(parents[u])}

RECURSIVE ReachableFrom(_)
ReachableFrom(set) ==
  LET next == set \cup UNION {ParentSet(u) : u \in set}
  IN IF next = set THEN set ELSE ReachableFrom(next)

Reachable == ReachableFrom({Refutation})

\* ------------------------------------------------------------------ UnitInfo
UnitInfo ==
  [color |-> COLOR_TRANSPARENT,
   inputInheritedColor |-> COLOR_TRANSPARENT,
   state |-> TRANSPARENT_PARENTS,
   isRefutation |-> FALSE,
   isParentOfLeft |-> FALSE,
   isParentOfRight |-> FALSE,
   leadsToColor |-> FALSE,
   leftSuccessors |-> <<>>,
   rightSuccessors |-> <<>>,
   transparentSuccessors |-> <<>>]

\* TraverseStackEntry::TraverseStackEntry: the UnitInfo inserted for u
InputInheritedColor(u) ==
  IF inheritedColor[u] = COLOR_INVALID
  THEN (IF parents[u] = <<>> THEN unitColor[u] ELSE COLOR_TRANSPARENT)
  ELSE inheritedColor[u]

InitialLeadsToColor(color, iic) ==
  color # COLOR_TRANSPARENT \/ iic # COLOR_TRANSPARENT

NewUnitInfo(u) ==
  [UnitInfo EXCEPT
     !.color = unitColor[u],
     !.inputInheritedColor = InputInheritedColor(u),
     !.leadsToColor = InitialLeadsToColor(unitColor[u], InputInheritedColor(u))]

TraverseStackEntry(u) == [unit |-> u, parentIterator |-> 1]

\* USList::push puts the element in front of the list
USListPush(elem, list) == <<elem>> \o list

\* ------------------------------------------------------------------ processParent
\* mutant: only the assertion on a LEFT parent is present
ProcessParentAsserts_LeftOnly(inf, unit, parent) ==
  unitColor[parent] = COLOR_LEFT => inf[unit].state # HAS_RIGHT_PARENT

\* the two ASS_NEQ of processParent
ProcessParentAsserts(inf, unit, parent) ==
  LET pcol == unitColor[parent]
  IN /\ (pcol = COLOR_LEFT => inf[unit].state # HAS_RIGHT_PARENT)
     /\ (pcol = COLOR_RIGHT => inf[unit].state # HAS_LEFT_PARENT)

NextParentState(state, pcol) ==
  IF pcol = COLOR_LEFT THEN HAS_LEFT_PARENT
  ELSE IF pcol = COLOR_RIGHT THEN HAS_RIGHT_PARENT
  ELSE state

\* mutant: the parent's value is assigned instead of or-ed in
MergeLeadsToColor_Assign(own, ofParent) == ofParent

MergeLeadsToColor(own, ofParent) == own \/ ofParent

\* mutant: a RIGHT child is recorded as a LEFT one
RecordSuccessor_AlwaysLeft(parInfo, unit, color) ==
  IF color # COLOR_TRANSPARENT
  THEN [parInfo EXCEPT !.isParentOfLeft = TRUE,
                       !.leftSuccessors = USListPush(unit, @)]
  ELSE [parInfo EXCEPT !.transparentSuccessors = USListPush(unit, @)]

\* mutant: recording a child of one color clears the flag of the other color
RecordSuccessor_ResetOther(parInfo, unit, color) ==
  IF color = COLOR_LEFT
  THEN [parInfo EXCEPT !.isParentOfLeft = TRUE, !.isParentOfRight = FALSE,
                       !.leftSuccessors = USListPush(unit, @)]
  ELSE IF color = COLOR_RIGHT
  THEN [parInfo EXCEPT !.isParentOfRight = TRUE, !.isParentOfLeft = FALSE,
                       !.rightSuccessors = USListPush(unit, @)]
  ELSE [parInfo EXCEPT !.transparentSuccessors = USListPush(unit, @)]

\* the successor list and the flag of the parent that the child's color selects
RecordSuccessor(parInfo, unit, color) ==
  IF color = COLOR_LEFT
  THEN [parInfo EXCEPT !.isParentOfLeft = TRUE,
                       !.leftSuccessors = USListPush(unit, @)]
  ELSE IF color = COLOR_RIGHT
  THEN [parInfo EXCEPT !.isParentOfRight = TRUE,
                       !.rightSuccessors = USListPush(unit, @)]
  ELSE [parInfo EXCEPT !.transparentSuccessors = USListPush(unit, @)]

ProcessParent(inf, unit, parent) ==
  LET pcol == unitColor[parent]
      info == [inf[unit] EXCEPT
                 !.state = NextParentState(@, pcol),
                 !.leadsToColor = MergeLeadsToColor(@, inf[parent].leadsToColor)]
      inf1 == [inf EXCEPT ![unit] = info]
  IN [inf1 EXCEPT ![parent] = RecordSuccessor(@, unit, info.color)]

\* ------------------------------------------------------------------ traverse
Top == stack[Len(stack)]

Pop(s) == SubSeq(s, 1, Len(s) - 1)

\* mutant: the iterator of the top entry does not move
AdvanceTop_Stay(s) == s

AdvanceTop(s) ==
  [s EXCEPT ![Len(s)].parentIterator = @ + 1]

TraverseBegin ==
  /\ pc = "start"
  /\ stack' = <<TraverseStackEntry(Refutation)>>
  /\ infos' = (Refutation :> [NewUnitInfo(Refutation) EXCEPT !.isRefutation = TRUE])
  /\ pc' = "traverse"
  /\ UNCHANGED <<marks, uwa, clausify, atomCalls, inputVars, minimizeVars>>

\* mutant: processParent is called when the parent is pushed, not when it is done
TraversePush_ProcessEarly ==
  /\ pc = "traverse"
  /\ stack # <<>>
  /\ Top.parentIterator <= Len(parents[Top.unit])
  /\ LET parent == parents[Top.unit][Top.parentIterator]
     IN /\ parent \notin DOMAIN infos
        /\ stack' = Append(AdvanceTop(stack), TraverseStackEntry(parent))
        /\ infos' = ProcessParent(infos @@ (parent :> NewUnitInfo(parent)),
                                  Top.unit, parent)
  /\ UNCHANGED <<marks, uwa, clausify, atomCalls, inputVars, minimizeVars, pc>>

\* the parent has not been visited: a new stack entry
TraversePush ==
  /\ pc = "traverse"
  /\ stack # <<>>
  /\ Top.parentIterator <= Len(parents[Top.unit])
  /\ LET parent == parents[Top.unit][Top.parentIterator]
     IN /\ parent \notin DOMAIN infos
        /\ stack' = Append(AdvanceTop(stack), TraverseStackEntry(parent))
        /\ infos' = infos @@ (parent :> NewUnitInfo(parent))
  /\ UNCHANGED <<marks, uwa, clausify, atomCalls, inputVars, minimizeVars, pc>>

\* processParent called for `unit` and its premise `parent`; s is the stack after it
CallProcessParent(unit, parent, s) ==
  IF vdebug /\ ~ProcessParentAsserts(infos, unit, parent)
  THEN /\ pc' = "assertion_violation"
       /\ UNCHANGED <<infos, stack>>
  ELSE /\ infos' = ProcessParent(infos, unit, parent)
       /\ stack' = s
       /\ pc' = IF s = <<>> THEN "encode" ELSE "traverse"

\* the parent is already in _infos
TraverseVisited ==
  /\ pc = "traverse"
  /\ stack # <<>>
  /\ Top.parentIterator <= Len(parents[Top.unit])
  /\ LET parent == parents[Top.unit][Top.parentIterator]
     IN /\ parent \in DOMAIN infos
        /\ CallProcessParent(Top.unit, parent, AdvanceTop(stack))
  /\ UNCHANGED <<marks, uwa, clausify, atomCalls, inputVars, minimizeVars>>

\* all premises of the top entry are done
TraversePop ==
  /\ pc = "traverse"
  /\ stack # <<>>
  /\ Top.parentIterator > Len(parents[Top.unit])
  /\ IF Len(stack) > 1
     THEN CallProcessParent(stack[Len(stack) - 1].unit, Top.unit, Pop(stack))
     ELSE /\ stack' = Pop(stack)
          /\ pc' = "encode"
          /\ UNCHANGED infos
  /\ UNCHANGED <<marks, uwa, clausify, atomCalls, inputVars, minimizeVars>>

\* ------------------------------------------------------------------ unit bodies
\* A literal is a unary predicate, a polarity and an argument: the constant
\* "a" or one of the variables.
Variables == {"X", "Y"}

Lit(p, pos, a) == [pred |-> p, positive |-> pos, arg |-> a]

ClauseBody(lits) == [isClause |-> TRUE, lits |-> lits]

FormulaBody(text, weight, varCnt) ==
  [isClause |-> FALSE, text |-> text, weight |-> weight, varCnt |-> varCnt]

Range(seq) == {seq[i] : i \in 1..Len(seq)}

\* Clause::weight: the number of symbols (predicate and argument of every literal)
ClauseWeight(lits) == Len(lits) + Len(lits)

\* Unit::varCnt of a clause
ClauseVarCnt(lits) == Cardinality({l.arg : l \in Range(lits)} \cap Variables)

\* Literal::oppositeLiteral
OppositeLiteral(l) == [l EXCEPT !.positive = ~@]

\* Renaming::normalize: the variables renamed in order of occurrence
Normalize(l) == [l EXCEPT !.arg = IF @ \in Variables THEN "X" ELSE @]

AtomKey_KeepPolarity(l) == Normalize(l)

\* the key of a single-literal component in _atomIndex
AtomKey(l) == Normalize(IF l.positive THEN l ELSE OppositeLiteral(l))

\* two clauses are variants: equal as multisets of literals up to renaming
IsVariant(c1, c2) ==
  /\ Len(c1) = Len(c2)
  /\ \A l \in Range(c1) \cup Range(c2) :
       Cardinality({i \in 1..Len(c1) : Normalize(c1[i]) = Normalize(l)}) =
       Cardinality({i \in 1..Len(c2) : Normalize(c2[i]) = Normalize(l)})

SelectLits(lits, a) == SelectSeq(lits, LAMBDA l : l.arg = a)

\* SWBSplitter::doSplitting: the maximal variable-disjoint components, the
\* component of a literal listed where its first literal stands
RECURSIVE SplitFrom(_, _)
SplitFrom(lits, i) ==
  IF i > Len(lits) THEN <<>>
  ELSE LET l == lits[i]
       IN IF l.arg \in Variables
          THEN IF \E j \in 1..(i - 1) : lits[j].arg = l.arg
               THEN SplitFrom(lits, i + 1)
               ELSE <<SelectLits(lits, l.arg)>> \o SplitFrom(lits, i + 1)
          ELSE <<(<<l>>)>> \o SplitFrom(lits, i + 1)

SplitComponents(lits) == SplitFrom(lits, 1)

\* ------------------------------------------------------------------ component ids
NoAtoms ==
  [formulaAtomIds |-> <<>>,   \* _formulaAtomIds: text -> id
   atomIds |-> <<>>,          \* _atomIds: component clause -> id
   atomWeights |-> <<>>,      \* _atomWeights: id -> weight
   unitsById |-> <<>>,        \* _unitsById: id -> the unit behind the id
   index |-> {},              \* ClauseSplitter::_index
   atomIndex |-> <<>>]        \* ClauseSplitter::_atomIndex: normalized literal -> clause

MapSize(m) == Cardinality(DOMAIN m)

\* collectAtoms(FormulaUnit*, ...): [at: the maps afterwards, id: the id pushed]
FormulaAtom(at, body) ==
  IF body.text \in DOMAIN at.formulaAtomIds
  THEN [at |-> at, id |-> at.formulaAtomIds[body.text]]
  ELSE LET id == "f" \o ToString(MapSize(at.formulaAtomIds))
       IN [at |-> [at EXCEPT
                     !.formulaAtomIds = @ @@ (body.text :> id),
                     !.atomWeights = @ @@ (id :> body.weight),
                     !.unitsById = @ @@ (id :> [varCnt |-> body.varCnt])],
           id |-> id]

\* getAtomComponent(lit, cl): cl is <<>> where the code passes 0
GetAtomComponent(at, lit, cl) ==
  LET norm == AtomKey(lit)
  IN IF norm \in DOMAIN at.atomIndex
     THEN [at |-> at, comp |-> at.atomIndex[norm]]
     ELSE LET res == IF cl # <<>> THEN cl ELSE <<norm>>
          IN [at |-> [at EXCEPT !.atomIndex = @ @@ (norm :> res)], comp |-> res]

\* getComponent(lits, len) and getComponent(cl): whole tells which of the two
GetComponent(at, lits, whole) ==
  IF Len(lits) = 1
  THEN GetAtomComponent(at, lits[1], IF whole THEN lits ELSE <<>>)
  ELSE LET found == {c \in at.index : IsVariant(c, lits)}
       IN IF found # {}
          THEN [at |-> at, comp |-> CHOOSE c \in found : TRUE]
          ELSE [at |-> [at EXCEPT !.index = @ \cup {lits}], comp |-> lits]

\* getComponentId
GetComponentId(at, cl) ==
  IF cl \in DOMAIN at.atomIds
  THEN [at |-> at, id |-> at.atomIds[cl]]
  ELSE LET id == "c" \o ToString(MapSize(at.atomIds))
       IN [at |-> [at EXCEPT
                     !.atomIds = @ @@ (cl :> id),
                     !.atomWeights = @ @@ (id :> ClauseWeight(cl)),
                     !.unitsById = @ @@ (id :> [varCnt |-> ClauseVarCnt(cl)])],
           id |-> id]

\* ClauseSplitter::getComponents followed by getComponentId on each component:
\* [at, ids] for the components comps[i..]
RECURSIVE ComponentIds(_, _, _, _)
ComponentIds(at, comps, i, whole) ==
  IF i > Len(comps) THEN [at |-> at, ids |-> <<>>]
  ELSE LET c == GetComponent(at, comps[i], whole)
           d == GetComponentId(c.at, c.comp)
           rest == ComponentIds(d.at, comps, i + 1, whole)
       IN [at |-> rest.at, ids |-> <<d.id>> \o rest.ids]

\* collectAtoms(UnitSpec, ...): [at, ids]
CollectAtoms(at, body) ==
  IF ~body.isClause
  THEN LET f == FormulaAtom(at, body) IN [at |-> f.at, ids |-> <<f.id>>]
  ELSE LET comps == IF body.lits = <<>> THEN <<>> ELSE SplitComponents(body.lits)
       IN IF Len(comps) <= 1
          THEN ComponentIds(at, <<body.lits>>, 1, TRUE)
          ELSE ComponentIds(at, comps, 1, FALSE)

\* ------------------------------------------------------------------ SMT formulas
\* pred(t, node): the propositional constant of type t for a node id
pred(t, node) == <<"const", t, node>>

SmtTrue == <<"true">>
SmtFalse == <<"false">>
Not(f) == <<"not", f>>
And(f, g) == <<"and", f, g>>
Or(f, g) == <<"or", f, g>>
Implies(f, g) == <<"implies", f, g>>
Iff(f, g) == <<"iff", f, g>>

\* SMTFormula::unsignedValue, condNumber, add, equals(costFunction(), sum)
UnsignedValue(n) == <<"number", n>>
CondNumber(c, n) == <<"cond", c, n>>
Add(a, b) == <<"add", a, b>>
CostEquals(sum) == <<"cost_equals", sum>>

\* a formula added to the benchmark, with the comment given to addFormula
Entry(f, comment) == [formula |-> f, comment |-> comment]

\* getUnitId
getUnitId(u) == ToString(u)

RECURSIVE ConstantsOf(_)
ConstantsOf(f) ==
  CASE f[1] = "const" -> {f}
    [] f[1] \in {"true", "false", "number"} -> {}
    [] f[1] = "not" -> ConstantsOf(f[2])
    [] f[1] = "cond" -> {f[2]}
    [] f[1] = "cost_equals" -> ConstantsOf(f[2])
    [] OTHER -> ConstantsOf(f[2]) \cup ConstantsOf(f[3])

\* the value of a formula under an assignment of "true" / "false" to its constants
RECURSIVE Holds(_, _)
Holds(f, a) ==
  CASE f[1] = "const" -> a[f] = "true"
    [] f[1] = "true" -> TRUE
    [] f[1] = "false" -> FALSE
    [] f[1] = "not" -> ~Holds(f[2], a)
    [] f[1] = "and" -> Holds(f[2], a) /\ Holds(f[3], a)
    [] f[1] = "or" -> Holds(f[2], a) \/ Holds(f[3], a)
    [] f[1] = "implies" -> Holds(f[2], a) => Holds(f[3], a)
    [] f[1] = "iff" -> Holds(f[2], a) <=> Holds(f[3], a)

RECURSIVE Value(_, _)
Value(e, a) ==
  CASE e[1] = "number" -> e[2]
    [] e[1] = "cond" -> IF a[e[2]] = "true" THEN e[3] ELSE 0
    [] e[1] = "add" -> Value(e[2], a) + Value(e[3], a)

\* ------------------------------------------------------------------ node formulas
R == "r"
B == "b"
G == "g"
S == "s"
RC == "rc"
BC == "bc"
RF == "rf"
BF == "bf"
D == "d"
V == "v"

OT_WEIGHT == "OT_WEIGHT"
OT_COUNT == "OT_COUNT"
OT_QUANTIFIERS == "OT_QUANTIFIERS"

\* fold of a binary connective over a sequence, as the loops of the code build it
RECURSIVE FoldLeft(_, _, _, _)
FoldLeft(Op(_, _), acc, seq, i) ==
  IF i > Len(seq) THEN acc ELSE FoldLeft(Op, Op(acc, seq[i]), seq, i + 1)

\* mutant: the parents that do not lead to color are summarised too
ParentIdsOfColor_AllParents(u, color) ==
  LET ps == SelectSeq(parents[u], LAMBDA p : infos[p].color = color)
  IN [i \in 1..Len(ps) |-> getUnitId(ps[i])]

\* the ParentSummary of addNodeFormulas(UnitSpec): the ids of the parents with
\* leadsToColor, by color
ParentIdsOfColor(u, color) ==
  LET ps == SelectSeq(parents[u],
                      LAMBDA p : infos[p].leadsToColor /\ infos[p].color = color)
  IN [i \in 1..Len(ps) |-> getUnitId(ps[i])]

ParentSummary(u) ==
  [rParents |-> ParentIdsOfColor(u, COLOR_LEFT),
   bParents |-> ParentIdsOfColor(u, COLOR_RIGHT),
   gParents |-> ParentIdsOfColor(u, COLOR_TRANSPARENT)]

addDistinctColorsFormula(n) ==
  LET rN == pred(R, n)
      bN == pred(B, n)
      gN == pred(G, n)
      res0 == Or(Or(bN, rN), gN)
      res1 == And(res0, Implies(rN, And(Not(bN), Not(gN))))
      res2 == And(res1, Implies(bN, And(Not(rN), Not(gN))))
      res3 == And(res2, Implies(gN, And(Not(rN), Not(bN))))
  IN {Entry(res3, "")}

addGreyNodePropertiesFormula(n, psum) ==
  LET rParDisj == FoldLeft(LAMBDA acc, par : Or(acc, pred(R, par)), SmtFalse, psum.gParents, 1)
      bParDisj == FoldLeft(LAMBDA acc, par : Or(acc, pred(B, par)), SmtFalse, psum.gParents, 1)
      gParConj == FoldLeft(LAMBDA acc, par : And(acc, pred(G, par)), SmtTrue, psum.gParents, 1)
      rN == pred(R, n)
      bN == pred(B, n)
      gN == pred(G, n)
      sN == pred(S, n)
      rcN == pred(RC, n)
      bcN == pred(BC, n)
  IN {Entry(Iff(rcN, And(Not(sN), rParDisj)), ""),
      Entry(Iff(bcN, And(Not(sN), bParDisj)), ""),
      Entry(Implies(rParDisj, Not(bParDisj)), ""),
      Entry(Implies(bParDisj, Not(rParDisj)), ""),
      Entry(Implies(And(sN, rParDisj), rN), ""),
      Entry(Implies(And(sN, bParDisj), bN), ""),
      Entry(Implies(And(sN, gParConj), gN), ""),
      Entry(Implies(Not(sN), gN), "")}

\* mutant: the leaf is not forced into the digest
addLeafNodePropertiesFormula_NoDigest(n) ==
  {Entry(Not(pred(S, n)), ""), Entry(pred(G, n), "")}

addLeafNodePropertiesFormula(n) ==
  {Entry(Not(pred(S, n)), ""), Entry(pred(G, n), ""), Entry(pred(D, n), "")}

\* mutant: the parents' color is taken to be LEFT always
addColoredParentPropertiesFormulas_AlwaysRed(n, psum) ==
  LET gParNegConj == FoldLeft(LAMBDA acc, par : And(acc, Not(pred(B, par))),
                              SmtTrue, psum.gParents, 1)
      sN == pred(S, n)
  IN {Entry(Iff(pred(RC, n), Not(sN)), ""), Entry(Not(pred(BC, n)), ""),
      Entry(gParNegConj, ""),
      Entry(Implies(sN, pred(R, n)), ""),
      Entry(Implies(Not(sN), pred(G, n)), "")}

addColoredParentPropertiesFormulas(n, psum) ==
  LET parentType == IF psum.rParents # <<>> THEN R ELSE B
      oppositeType == IF parentType = R THEN B ELSE R
      gParNegConj == FoldLeft(LAMBDA acc, par : And(acc, Not(pred(oppositeType, par))),
                              SmtTrue, psum.gParents, 1)
      parN == pred(parentType, n)
      gN == pred(G, n)
      sN == pred(S, n)
      rcN == pred(RC, n)
      bcN == pred(BC, n)
  IN (IF parentType = R
      THEN {Entry(Iff(rcN, Not(sN)), ""), Entry(Not(bcN), "")}
      ELSE {Entry(Iff(bcN, Not(sN)), ""), Entry(Not(rcN), "")})
     \cup {Entry(gParNegConj, ""),
           Entry(Implies(sN, parN), ""),
           Entry(Implies(Not(sN), gN), "")}

\* addNodeFormulas(string, ParentSummary&)
addNodePropertiesFormulas(n, psum) ==
  addDistinctColorsFormula(n)
    \cup (IF psum.rParents = <<>> /\ psum.bParents = <<>>
          THEN addGreyNodePropertiesFormula(n, psum)
          ELSE addColoredParentPropertiesFormulas(n, psum))

\* mutant: colored successors do not close the fringe
addFringeFormulas_TransparentOnly(u) ==
  LET n == getUnitId(u)
      uinfo == infos[u]
      succIds == [i \in 1..Len(uinfo.transparentSuccessors) |->
                    getUnitId(uinfo.transparentSuccessors[i])]
      rfRhs == FoldLeft(LAMBDA acc, s :
                          And(And(acc, Or(pred(RF, s), pred(RC, s))), Not(pred(BC, s))),
                        SmtTrue, succIds, 1)
      bfRhs == FoldLeft(LAMBDA acc, s :
                          And(And(acc, Or(pred(BF, s), pred(BC, s))), Not(pred(RC, s))),
                        SmtTrue, succIds, 1)
      digest == Entry(Iff(pred(D, n), Or(And(pred(RC, n), Not(pred(RF, n))),
                                         And(pred(BC, n), Not(pred(BF, n))))), "")
  IN IF uinfo.isRefutation
     THEN {digest, Entry(Not(pred(RF, n)), ""), Entry(pred(BF, n), "")}
     ELSE {digest, Entry(Iff(pred(RF, n), rfRhs), ""), Entry(Iff(pred(BF, n), bfRhs), "")}

addFringeFormulas(u) ==
  LET n == getUnitId(u)
      rcN == pred(RC, n)
      bcN == pred(BC, n)
      rfN == pred(RF, n)
      bfN == pred(BF, n)
      dN == pred(D, n)
      uinfo == infos[u]
      succIds == [i \in 1..Len(uinfo.transparentSuccessors) |->
                    getUnitId(uinfo.transparentSuccessors[i])]
      rfRhs == FoldLeft(LAMBDA acc, s :
                          And(And(acc, Or(pred(RF, s), pred(RC, s))), Not(pred(BC, s))),
                        SmtTrue, succIds, 1)
      bfRhs == FoldLeft(LAMBDA acc, s :
                          And(And(acc, Or(pred(BF, s), pred(BC, s))), Not(pred(RC, s))),
                        SmtTrue, succIds, 1)
      digest == Entry(Iff(dN, Or(And(rcN, Not(rfN)), And(bcN, Not(bfN)))), "")
  IN IF uinfo.isRefutation
     THEN {digest, Entry(Not(rfN), ""), Entry(bfN, "")}
     ELSE {digest,
           IF uinfo.rightSuccessors # <<>>
           THEN Entry(Not(rfN), "") ELSE Entry(Iff(rfN, rfRhs), ""),
           IF uinfo.leftSuccessors # <<>>
           THEN Entry(Not(bfN), "") ELSE Entry(Iff(bfN, bfRhs), "")}

\* mutant: the refutation gets no override of its own
SlicingOverride_NoRefutation(noSlicing, isRefutation) == noSlicing

\* mutant: the noSlicing option is ignored
SlicingOverride_IgnoreNoSlicing(noSlicing, isRefutation) == isRefutation

\* the "no slicing" override of addNodeFormulas(UnitSpec)
SlicingOverride(noSlicing, isRefutation) == noSlicing \/ isRefutation

addSlicingOverride(u) ==
  IF SlicingOverride(config.noSlicing, infos[u].isRefutation)
  THEN {Entry(Not(pred(S, getUnitId(u))),
              IF infos[u].isRefutation THEN "refutation" ELSE "")}
  ELSE {}

\* mutant: the excluded trace colors are swapped
addParentOfColoredFormulas_Swapped(u) ==
  (IF infos[u].isParentOfLeft
   THEN {Entry(Not(pred(R, getUnitId(u))), "parent_of_left")} ELSE {})
  \cup (IF infos[u].isParentOfRight
        THEN {Entry(Not(pred(B, getUnitId(u))), "parent_of_right")} ELSE {})

addParentOfColoredFormulas(u) ==
  (IF infos[u].isParentOfLeft
   THEN {Entry(Not(pred(B, getUnitId(u))), "parent_of_left")} ELSE {})
  \cup (IF infos[u].isParentOfRight
        THEN {Entry(Not(pred(R, getUnitId(u))), "parent_of_right")} ELSE {})

\* addAtomImplicationFormula, for the component ids collectAtoms returned
addAtomImplicationFormula(u, ids) ==
  LET cConj == FoldLeft(LAMBDA acc, atom : And(acc, pred(V, atom)), SmtTrue, ids, 1)
  IN {Entry(Implies(pred(D, getUnitId(u)), cConj), "atom implications")}

\* addNodeFormulas(UnitSpec) without the atom implication
addNodeFormulas(u) ==
  (IF infos[u].inputInheritedColor # COLOR_TRANSPARENT
   THEN addLeafNodePropertiesFormula(getUnitId(u))
   ELSE addNodePropertiesFormulas(getUnitId(u), ParentSummary(u))
          \cup addFringeFormulas(u))
  \cup addSlicingOverride(u)
  \cup addParentOfColoredFormulas(u)

\* mutant: the COUNT target is not told apart from WEIGHT
CostWeight_NoCount(target, weight, varCnt) ==
  IF target = OT_QUANTIFIERS THEN varCnt ELSE weight

\* the weight of one component in the cost, by optimization target
CostWeight(target, weight, varCnt) ==
  IF target = OT_QUANTIFIERS THEN varCnt
  ELSE IF target = OT_COUNT /\ weight > 0 THEN 1
  ELSE weight

\* addCostFormula: the sum over the entries of _atomWeights
RECURSIVE CostSum(_, _)
CostSum(at, ids) ==
  IF ids = {} THEN UnsignedValue(0)
  ELSE LET atom == CHOOSE x \in ids : TRUE
           weight == CostWeight(config.optTarget, at.atomWeights[atom],
                                at.unitsById[atom].varCnt)
       IN Add(CostSum(at, ids \ {atom}), CondNumber(pred(V, atom), weight))

addCostFormula(at) ==
  {Entry(CostEquals(CostSum(at, DOMAIN at.atomWeights)), "")}

\* the units addAllFormulas encodes
IsEncoded(u) ==
  /\ u \in DOMAIN infos
  /\ infos[u].color = COLOR_TRANSPARENT
  /\ infos[u].leadsToColor

\* addAllFormulas: the loop over _infos, from unit u on, then the cost formula
RECURSIVE AddAllFormulasFrom(_, _, _)
AddAllFormulasFrom(u, formulas, at) ==
  IF u > NumUnits
  THEN [formulas |-> formulas \cup addCostFormula(at), atoms |-> at]
  ELSE IF IsEncoded(u)
  THEN LET c == CollectAtoms(at, unitBody[u])
       IN AddAllFormulasFrom(u + 1,
            formulas \cup addNodeFormulas(u) \cup addAtomImplicationFormula(u, c.ids),
            c.at)
  ELSE AddAllFormulasFrom(u + 1, formulas, at)

AddAllFormulas ==
  /\ pc = "encode"
  /\ LET res == AddAllFormulasFrom(1, {}, atoms)
     IN /\ resBenchmark' = res.formulas
        /\ atoms' = res.atoms
  /\ pc' = "minimize"
  /\ UNCHANGED <<marks, uwa, clausify, atomCalls, inputVars, infos, stack, solver, slicedOff, out>>


\* ------------------------------------------------------------------ the SMT minimizer
FAIL == "FAIL"
APPROXIMATE == "APPROXIMATE"
OPTIMAL == "OPTIMAL"

NoResult == [mres |-> "none", assignment |-> <<>>, cost |-> 0, agenda |-> <<>>]

PropositionalFormulas(benchmark) ==
  {e.formula : e \in {x \in benchmark : x.formula[1] # "cost_equals"}}

CostFormulas(benchmark) ==
  {e.formula : e \in {x \in benchmark : x.formula[1] = "cost_equals"}}

\* the propositional constants pred() has declared
Declared(benchmark) == UNION {ConstantsOf(e.formula) : e \in benchmark}

\* an assignment of all declared constants and of cost satisfies the benchmark
Satisfies(a, cost) ==
  /\ DOMAIN a = Declared(resBenchmark)
  /\ \A f \in PropositionalFormulas(resBenchmark) : Holds(f, a)
  /\ \A f \in CostFormulas(resBenchmark) : cost = Value(f[2], a)

\* the value of cost that the cost formula fixes under an assignment
CostOf(a) ==
  LET f == CHOOSE x \in CostFormulas(resBenchmark) : TRUE IN Value(f[2], a)

RECURSIVE SetToSeq(_)
SetToSeq(set) ==
  IF set = {} THEN <<>>
  ELSE LET x == CHOOSE y \in set : TRUE IN <<x>> \o SetToSeq(set \ {x})

RECURSIVE ConstantsOfUnits(_, _, _, _)
ConstantsOfUnits(declared, u, last, types) ==
  LET here == SelectSeq([i \in 1..Len(types) |-> pred(types[i], getUnitId(u))],
                        LAMBDA c : c \in declared)
  IN IF u = last THEN here
     ELSE here \o ConstantsOfUnits(declared, IF u < last THEN u + 1 ELSE u - 1,
                                   last, types)

\* the order in which the search decides the constants: trace colors and
\* boundaries from the premises down, fringes and digest from the refutation
\* up, the component constants last
DecisionOrder(declared) ==
  ConstantsOfUnits(declared, 1, NumUnits, <<S, R, B, G, RC, BC>>)
    \o ConstantsOfUnits(declared, NumUnits, 1, <<RF, BF, D>>)
    \o SetToSeq({c \in declared : c[2] = V})

\* the search plan: each constant with the formulas that can be evaluated once
\* it has a value (those whose other constants come earlier in the order)
Agenda(benchmark) ==
  LET order == DecisionOrder(Declared(benchmark))
      Position(c) == CHOOSE i \in 1..Len(order) : order[i] = c
      Last(f) == LET cs == ConstantsOf(f)
                 IN IF cs = {} THEN 1
                    ELSE CHOOSE i \in {Position(c) : c \in cs} :
                           \A c \in cs : Position(c) <= i
      withLast == {<<Last(f), f>> : f \in PropositionalFormulas(benchmark)}
  IN [i \in 1..Len(order) |->
        [constant |-> order[i],
         closes |-> {x[2] : x \in {y \in withLast : y[1] = i}}]]

\* mutant: the jump to just_generate_interpolant is missing
AfterMinimize_NoGoto(mres) == "collect"

\* getInterpolant: where control goes with the result of minimize()
AfterMinimize(mres) == IF mres = FAIL THEN "generate" ELSE "collect"

\* minimize() is handed the benchmark
SolverStart ==
  /\ pc = "minimize"
  /\ solver' = [NoResult EXCEPT !.agenda = Agenda(resBenchmark)]
  /\ pc' = "solving"
  /\ UNCHANGED <<marks, uwa, clausify, atomCalls, inputVars, infos, stack, resBenchmark, atoms, slicedOff, out>>

\* the solver gives up (timeout) or finds the problem unsatisfiable
SolverFail ==
  /\ pc = "solving"
  /\ solver' = [NoResult EXCEPT !.mres = FAIL]
  /\ out' = [out EXCEPT !.warnings = Append(@, "minimization failed")]
  /\ pc' = AfterMinimize(FAIL)
  /\ UNCHANGED <<marks, uwa, clausify, atomCalls, inputVars, infos, stack, resBenchmark, atoms, slicedOff>>

\* the search gives the next constant a value that falsifies no formula
SolverDecide ==
  /\ pc = "solving"
  /\ solver.agenda # <<>>
  /\ \E val \in {"true", "false"} :
       LET a == solver.assignment @@ (Head(solver.agenda).constant :> val)
       IN /\ \A f \in Head(solver.agenda).closes : Holds(f, a)
          /\ solver' = [solver EXCEPT !.assignment = a, !.agenda = Tail(@)]
  /\ UNCHANGED <<marks, uwa, clausify, atomCalls, inputVars, traverseVars, resBenchmark, atoms, slicedOff, out>>

\* every constant has a value: the solver returns the model and its cost
SolverReturn ==
  /\ pc = "solving"
  /\ solver.agenda = <<>>
  /\ \E kind \in {APPROXIMATE, OPTIMAL} :
       /\ solver' = [solver EXCEPT !.mres = kind, !.cost = CostOf(solver.assignment)]
       /\ out' = IF kind = APPROXIMATE
                 THEN [out EXCEPT !.warnings = Append(@, "approximate result")]
                 ELSE out
       /\ pc' = AfterMinimize(kind)
  /\ UNCHANGED <<marks, uwa, clausify, atomCalls, inputVars, infos, stack, resBenchmark, atoms, slicedOff>>

\* ------------------------------------------------------------------ getInterpolant, after minimize
NoOutput ==
  [assignmentReads |-> {},      \* the constants getInterpolant asked the assignment for
   warnings |-> <<>>,           \* lines on cerr
   stats |-> <<>>,              \* the cost lines on env.out()
   generatorCalls |-> <<>>]     \* calls of Interpolants(&slicedOff).getInterpolant

\* mutant: the units the model does not slice are the ones inserted
CollectSlicedOffNodes_Inverted(a) ==
  {u \in DOMAIN infos :
     /\ ~(infos[u].color # COLOR_TRANSPARENT \/ ~infos[u].leadsToColor)
     /\ a[pred(S, getUnitId(u))] = "false"}

\* collectSlicedOffNodes: the units of _infos it inserts
CollectSlicedOffNodes(a) ==
  {u \in DOMAIN infos :
     /\ ~(infos[u].color # COLOR_TRANSPARENT \/ ~infos[u].leadsToColor)
     /\ a[pred(S, getUnitId(u))] # "false"}

\* the constants collectSlicedOffNodes reads
SlicedOffReads ==
  {pred(S, getUnitId(u)) : u \in {x \in DOMAIN infos : IsEncoded(x)}}

\* the statistics line and collectSlicedOffNodes
CollectSlicedOff ==
  /\ pc = "collect"
  /\ slicedOff' = CollectSlicedOffNodes(solver.assignment)
  /\ out' = [out EXCEPT
               !.stats = IF config.showStats THEN Append(@, solver.cost) ELSE @,
               !.assignmentReads = @ \cup SlicedOffReads
                                     \cup (IF config.showStats THEN {<<"cost">>} ELSE {})]
  /\ pc' = "generate"
  /\ UNCHANGED <<marks, uwa, clausify, atomCalls, inputVars, infos, stack, resBenchmark, atoms, solver>>

\* just_generate_interpolant
GenerateInterpolant ==
  /\ pc = "generate"
  /\ out' = [out EXCEPT !.generatorCalls =
               Append(@, [refutation |-> Refutation, slicedOff |-> slicedOff])]
  /\ pc' = "done"
  /\ UNCHANGED <<marks, uwa, clausify, atomCalls, inputVars, infos, stack, resBenchmark, atoms, solver, slicedOff>>

\* ------------------------------------------------------------------ getInterpolant
\* sample units: the empty clause, unit clauses that are variants or
\* complements of each other, clauses of several components, a formula
UnitBodies ==
  {ClauseBody(<<>>),
   ClauseBody(<<Lit("p", TRUE, "X")>>),
   ClauseBody(<<Lit("p", FALSE, "Y"), Lit("q", TRUE, "a")>>),
   ClauseBody(<<Lit("p", TRUE, "X"), Lit("q", TRUE, "X")>>),
   ClauseBody(<<Lit("q", TRUE, "Y"), Lit("p", TRUE, "Y")>>),
   ClauseBody(<<Lit("p", TRUE, "X"), Lit("q", FALSE, "X")>>),
   FormulaBody("![X]: (p(X) => q(X))", 5, 1),
   FormulaBody("p(a)", 2, 0)}

\* the proof of getInterpolant: the refutation is the empty clause, the other
\* units take the sample clauses and the formula in turn
ProofBodies ==
  LET samples == <<ClauseBody(<<Lit("p", TRUE, "X")>>),
                   ClauseBody(<<Lit("p", FALSE, "Y"), Lit("q", TRUE, "a")>>),
                   FormulaBody("![X]: (p(X) => q(X))", 5, 1)>>
  IN [u \in Units |->
        IF u = Refutation THEN ClauseBody(<<>>)
        ELSE samples[((u - 1) % Len(samples)) + 1]]

Configs ==
  [optTarget : {OT_WEIGHT},
   noSlicing : BOOLEAN,
   showStats : BOOLEAN]

\* ------------------------------------------------------------------ Unit::markLeft, Unit::markRight
\* calls of markLeft and markRight in one run
MaxCalls == 4

\* the units as constructed: no mark set, no call made
UnmarkedUnits ==
  [left |-> [u \in Units |-> 0],      \* _left : 1
   right |-> [u \in Units |-> 0],     \* _right : 1
   pc |-> "running",
   call |-> <<>>,                     \* the last call: <<operation, unit>>
   calls |-> 0]

\* ASS(! _right) of markLeft
MarkLeftAsserts(m, u) == m.right[u] = 0

\* mutant: markRight asserts nothing
MarkRightAsserts_None(m, u) == TRUE

\* ASS(! _left) of markRight
MarkRightAsserts(m, u) == m.left[u] = 0

\* _left = 1
markLeft(m, u) == [m EXCEPT !.left[u] = 1]

\* _right = 1
markRight(m, u) == [m EXCEPT !.right[u] = 1]

\* a call: the assertion, where the build evaluates it, then the body
MarkCall(m, op, u, asserts, after) ==
  [(IF vdebug /\ ~asserts THEN [m EXCEPT !.pc = "assertion_violation"] ELSE after)
   EXCEPT !.call = <<op, u>>, !.calls = @ + 1]

MarkLeft ==
  /\ marks.pc = "running"
  /\ marks.calls < MaxCalls
  /\ \E u \in Units :
       marks' = MarkCall(marks, "markLeft", u, MarkLeftAsserts(marks, u), markLeft(marks, u))
  /\ UNCHANGED <<uwa, clausify, atomCalls, inputVars, traverseVars, minimizeVars>>

MarkRight ==
  /\ marks.pc = "running"
  /\ marks.calls < MaxCalls
  /\ \E u \in Units :
       marks' = MarkCall(marks, "markRight", u, MarkRightAsserts(marks, u), markRight(marks, u))
  /\ UNCHANGED <<uwa, clausify, atomCalls, inputVars, traverseVars, minimizeVars>>

\* ------------------------------------------------------------------ vclausify
MaxClauses == 3

MODE_CLAUSIFY == "MODE_CLAUSIFY"
MODE_VAMPIRE == "MODE_VAMPIRE"

UserErrorException == "UserErrorException"
TimeLimitExceededException == "TimeLimitExceededException"
MemoryLimitExceededException == "MemoryLimitExceededException"
BadAlloc == "std::bad_alloc"
AssertionViolationException == "AssertionViolationException"

GenericException == "Exception"

\* the resource limits are reported by exceptions derived from Exception
ResourceExceeded == {TimeLimitExceededException, MemoryLimitExceededException}

\* what catch (Exception&) catches
ExceptionClasses == {GenericException} \cup ResourceExceeded

\* the command lines: well formed or not, and the mode they ask for
CommandLines == [wellFormed : BOOLEAN, mode : {MODE_CLAUSIFY, MODE_VAMPIRE}]

\* the clauses getProblemClauses yields: what the simplifier makes of each
ClauseInputs ==
  UNION {[1..n -> {"kept", "deleted"}] : n \in 0..MaxClauses}

\* the clausify executable before main runs: vampireReturnValue is 1
BeforeMain(commandLine, input) ==
  [pc |-> "main",
   vampireReturnValue |-> 1,
   commandLine |-> commandLine,
   mode |-> MODE_VAMPIRE,        \* env.options->mode()
   input |-> input,              \* the clauses behind cit
   next |-> 1,                   \* the position of cit
   output |-> <<>>,              \* what env.out() has received
   outputDepth |-> 0,            \* beginOutput() calls not yet ended
   exception |-> "none"]         \* the exception in flight or handled

NotStarted ==
  BeforeMain([wellFormed |-> TRUE, mode |-> MODE_CLAUSIFY], <<>>)

\* throw: control leaves the try block for the handlers
Raise(c, e) == [c EXCEPT !.exception = e, !.pc = "catch"]

\* main up to the call of clausifyMode
MainInterpret ==
  /\ clausify.pc = "main"
  /\ clausify' =
       IF ~clausify.commandLine.wellFormed
       THEN Raise([clausify EXCEPT !.mode = MODE_CLAUSIFY], UserErrorException)
       ELSE IF clausify.commandLine.mode # MODE_CLAUSIFY
       THEN Raise([clausify EXCEPT !.mode = clausify.commandLine.mode],
                  UserErrorException)
       ELSE [clausify EXCEPT !.mode = MODE_CLAUSIFY, !.pc = "clausifyMode"]
  /\ UNCHANGED <<marks, uwa, atomCalls, inputVars, traverseVars, minimizeVars>>

\* clausifyMode up to the loop: getProblemClauses and env.beginOutput()
GetProblemClauses ==
  /\ clausify.pc = "clausifyMode"
  /\ \/ clausify' = [clausify EXCEPT !.outputDepth = @ + 1, !.pc = "loop"]
     \/ \E e \in {UserErrorException, BadAlloc} \cup ExceptionClasses :
          clausify' = Raise(clausify, e)
  /\ UNCHANGED <<marks, uwa, atomCalls, inputVars, traverseVars, minimizeVars>>

\* one iteration of the loop: simplify, and write the clause that survives
WriteClause ==
  /\ clausify.pc = "loop"
  /\ clausify.next <= Len(clausify.input)
  /\ clausify' =
       [clausify EXCEPT
          !.next = @ + 1,
          !.output = IF clausify.input[clausify.next] = "kept"
                     THEN Append(@, <<"clause", clausify.next>>) ELSE @]
  /\ UNCHANGED <<marks, uwa, atomCalls, inputVars, traverseVars, minimizeVars>>

\* an exception thrown while a clause is fetched, simplified or printed
RaiseInLoop ==
  /\ clausify.pc = "loop"
  /\ clausify.next <= Len(clausify.input)
  /\ \E e \in {BadAlloc} \cup ExceptionClasses
              \cup (IF vdebug THEN {AssertionViolationException} ELSE {}) :
       clausify' = Raise(clausify, e)
  /\ UNCHANGED <<marks, uwa, atomCalls, inputVars, traverseVars, minimizeVars>>

\* mutant: the return value is left as it was
ClausifyModeEnd_KeepReturnValue(c) ==
  [c EXCEPT !.outputDepth = @ - 1, !.pc = "return"]

\* the end of clausifyMode: env.endOutput() and vampireReturnValue=0
ClausifyModeEnd(c) ==
  [c EXCEPT !.outputDepth = @ - 1, !.vampireReturnValue = 0, !.pc = "return"]

FinishClausifyMode ==
  /\ clausify.pc = "loop"
  /\ clausify.next > Len(clausify.input)
  /\ clausify' = ClausifyModeEnd(clausify)
  /\ UNCHANGED <<marks, uwa, atomCalls, inputVars, traverseVars, minimizeVars>>

\* explainException: the message of the exception between beginOutput and endOutput
explainException(c) == [c EXCEPT !.output = Append(@, <<"message", c.exception>>)]

\* mutant: the handler starts the output afresh
ReportException_Discarding(c) ==
  [c EXCEPT !.output = <<(<<"message", c.exception>>), (<<"statistics">>)>>]

\* catch (Exception&): the message, then the statistics
ReportException(c) ==
  [explainException(c) EXCEPT !.output = Append(@, <<"statistics">>)]

\* the handlers of main
CatchHandler(c) ==
  CASE c.exception = AssertionViolationException -> c
    [] c.exception = UserErrorException -> explainException(c)
    [] c.exception \in ExceptionClasses -> ReportException(c)
    [] c.exception = BadAlloc ->
         [c EXCEPT !.output = Append(@, <<"Insufficient system memory">>)]

Catch ==
  /\ clausify.pc = "catch"
  /\ clausify' = [CatchHandler(clausify) EXCEPT !.pc = "return"]
  /\ UNCHANGED <<marks, uwa, atomCalls, inputVars, traverseVars, minimizeVars>>

\* return vampireReturnValue
Return ==
  /\ clausify.pc = "return"
  /\ clausify' = [clausify EXCEPT !.pc = "exited"]
  /\ UNCHANGED <<marks, uwa, atomCalls, inputVars, traverseVars, minimizeVars>>

InitClausify ==
  /\ parents = [u \in Units |-> <<>>]
  /\ unitColor = [u \in Units |-> COLOR_TRANSPARENT]
  /\ inheritedColor = [u \in Units |-> COLOR_INVALID]
  /\ vdebug \in BOOLEAN
  /\ unitBody = ProofBodies
  /\ config = [optTarget |-> OT_WEIGHT, noSlicing |-> FALSE, showStats |-> FALSE]
  /\ pc = "start"
  /\ infos = <<>>
  /\ stack = <<>>
  /\ resBenchmark = {}
  /\ atoms = NoAtoms
  /\ solver = NoResult
  /\ slicedOff = {}
  /\ out = NoOutput
  /\ atomCalls = <<>>
  /\ uwa = NoUwa
  /\ marks = UnmarkedUnits
  /\ clausify \in {BeforeMain(cl, in) : cl \in CommandLines, in \in ClauseInputs}

NextClausify ==
  \/ MainInterpret
  \/ GetProblemClauses
  \/ WriteClause
  \/ RaiseInLoop
  \/ FinishClausifyMode
  \/ Catch
  \/ Return

SpecClausify == InitClausify /\ [][NextClausify]_vars

\* ------------------------------------------------------------------ vclausify: claims
Exited == clausify.pc = "exited"

ClauseLines(output) == SelectSeq(output, LAMBDA line : line[1] = "clause")

\* the lines of the clauses input[from..] that survive simplification
RECURSIVE SurvivingFrom(_, _, _)
SurvivingFrom(input, from, to) ==
  IF from > to THEN <<>>
  ELSE (IF input[from] = "kept" THEN <<(<<"clause", from>>)>> ELSE <<>>)
         \o SurvivingFrom(input, from + 1, to)

RanToCompletion ==
  /\ clausify.exception = "none"
  /\ clausify.mode = MODE_CLAUSIFY
  /\ clausify.output = SurvivingFrom(clausify.input, 1, Len(clausify.input))
  /\ clausify.outputDepth = 0

\* C7: the exit value is 0 exactly when clausifyMode ran to completion (no
\* exception, every surviving clause written, the output closed), and it is 1
\* on every path on which an exception was raised.
C7_ExitValue ==
  Exited =>
    /\ clausify.vampireReturnValue = 0 <=> RanToCompletion
    /\ clausify.exception # "none" => clausify.vampireReturnValue = 1

\* a run that wrote two clauses and exited
C7_Witness ==
  /\ Exited
  /\ clausify.vampireReturnValue = 0
  /\ Len(clausify.output) >= 2
  /\ Len(clausify.input) > Len(clausify.output)

ResourceExceededAfterWrites ==
  /\ Exited
  /\ clausify.exception \in ResourceExceeded
  /\ SurvivingFrom(clausify.input, 1, clausify.next - 1) # <<>>

\* C8 as stated: after a resource-exceeded exception that follows written
\* clauses, the exit value is non-zero and no clause is left in the output.
C8_Original ==
  ResourceExceededAfterWrites =>
    /\ clausify.vampireReturnValue # 0
    /\ ClauseLines(clausify.output) = <<>>

\* C8 amended: after a resource-exceeded exception that follows written
\* clauses, the exit value is 1 and the output is the clauses written before
\* the exception followed by the message of the exception and the statistics.
C8_PartialOutputKept ==
  ResourceExceededAfterWrites =>
    /\ clausify.vampireReturnValue = 1
    /\ clausify.output =
         SurvivingFrom(clausify.input, 1, clausify.next - 1)
           \o <<(<<"message", clausify.exception>>), (<<"statistics">>)>>

\* the memory limit was hit after two clauses were written, one still to come
C8_Witness ==
  /\ ResourceExceededAfterWrites
  /\ clausify.exception = MemoryLimitExceededException
  /\ Len(ClauseLines(clausify.output)) = 2
  /\ clausify.next <= Len(clausify.input)

InitMinimizer ==
  /\ uwa = NoUwa
  /\ marks = UnmarkedUnits
  /\ pc = "start"
  /\ infos = <<>>
  /\ stack = <<>>
  /\ resBenchmark = {}
  /\ atoms = NoAtoms
  /\ solver = NoResult
  /\ slicedOff = {}
  /\ out = NoOutput
  /\ atomCalls = <<>>
  /\ clausify = NotStarted

Init ==
  /\ parents \in ProofDags
  /\ unitColor \in [Units -> Colors]
  /\ inheritedColor \in InheritedColors(parents, unitColor)
  /\ vdebug \in BOOLEAN
  /\ unitBody = ProofBodies
  /\ config \in Configs
  /\ InitMinimizer

Next ==
  \/ TraverseBegin
  \/ TraversePush
  \/ TraverseVisited
  \/ TraversePop
  \/ AddAllFormulas
  \/ SolverStart
  \/ SolverFail
  \/ SolverDecide
  \/ SolverReturn
  \/ CollectSlicedOff
  \/ GenerateInterpolant

Spec == Init /\ [][Next]_vars


\* ------------------------------------------------------------------ components and cost alone
\* addAllFormulas restricted to the component bookkeeping: the units are
\* visited in any order (the iteration order of the _infos map), each gets its
\* atom implication, and the cost formula comes last
Targets == {OT_WEIGHT, OT_COUNT, OT_QUANTIFIERS}

Visited == {atomCalls[i].unit : i \in 1..Len(atomCalls)}

InitAtoms ==
  /\ parents = [u \in Units |-> <<>>]
  /\ unitColor = [u \in Units |-> COLOR_TRANSPARENT]
  /\ inheritedColor = [u \in Units |-> COLOR_INVALID]
  /\ vdebug = FALSE
  /\ unitBody \in [Units -> UnitBodies]
  /\ config \in [optTarget : Targets, noSlicing : {FALSE}, showStats : {FALSE}]
  /\ InitMinimizer

\* addAtomImplicationFormula(u) for the next unit of the iteration
AddAtomImplication ==
  /\ pc = "start"
  /\ \E u \in Units \ Visited :
       LET c == CollectAtoms(atoms, unitBody[u])
       IN /\ atoms' = c.at
          /\ atomCalls' = Append(atomCalls, [unit |-> u, ids |-> c.ids])
          /\ resBenchmark' = resBenchmark \cup addAtomImplicationFormula(u, c.ids)
  /\ UNCHANGED <<marks, uwa, clausify, inputVars, traverseVars, solver, slicedOff, out>>

\* addCostFormula() once every unit has been visited
AddCost ==
  /\ pc = "start"
  /\ Visited = Units
  /\ resBenchmark' = resBenchmark \cup addCostFormula(atoms)
  /\ pc' = "minimize"
  /\ UNCHANGED <<marks, uwa, clausify, atomCalls, inputVars, infos, stack, atoms, solver, slicedOff, out>>

NextAtoms ==
  \/ AddAtomImplication
  \/ AddCost

SpecAtoms == InitAtoms /\ [][NextAtoms]_vars

\* ------------------------------------------------------------------ components and cost: claims
RECURSIVE SumOver(_, _)
SumOver(F(_), set) ==
  IF set = {} THEN 0
  ELSE LET x == CHOOSE y \in set : TRUE IN F(x) + SumOver(F, set \ {x})

Registered == DOMAIN atoms.atomWeights

\* what an id was registered for: a component clause or a formula unit
ComponentOf(id) ==
  IF \E cl \in DOMAIN atoms.atomIds : atoms.atomIds[cl] = id
  THEN ClauseBody(CHOOSE cl \in DOMAIN atoms.atomIds : atoms.atomIds[cl] = id)
  ELSE CHOOSE b \in {unitBody[u] : u \in Units} :
         ~b.isClause /\ atoms.formulaAtomIds[b.text] = id

SymbolCount(c) ==
  IF c.isClause
  THEN SumOver(LAMBDA i : 2, 1..Len(c.lits))
  ELSE c.weight

VariableCount(c) ==
  IF c.isClause
  THEN Cardinality({x \in Variables : \E i \in 1..Len(c.lits) : c.lits[i].arg = x})
  ELSE c.varCnt

SpecifiedWeight(c) ==
  CASE config.optTarget = OT_WEIGHT -> SymbolCount(c)
    [] config.optTarget = OT_COUNT -> IF SymbolCount(c) > 0 THEN 1 ELSE 0
    [] config.optTarget = OT_QUANTIFIERS -> VariableCount(c)

\* C10: the benchmark holds one cost constraint, and under every assignment of
\* the V constants its sum is the sum, over the registered components taken
\* once each, of the weight the optimization target gives the component if
\* V(c) is true and 0 otherwise.
C10_CostFormula ==
  pc = "minimize" =>
    /\ Cardinality(CostFormulas(resBenchmark)) = 1
    /\ \A f \in CostFormulas(resBenchmark) :
         \A a \in [{pred(V, id) : id \in Registered} -> {"true", "false"}] :
           Value(f[2], a) =
             SumOver(LAMBDA id : IF a[pred(V, id)] = "true"
                                 THEN SpecifiedWeight(ComponentOf(id)) ELSE 0,
                     Registered)

\* target COUNT, with a component of weight 0, one of weight above 1, and a
\* component that two units share
C10_Witness ==
  /\ pc = "minimize"
  /\ CostFormulas(resBenchmark) # {}
  /\ config.optTarget = OT_COUNT
  /\ \E id \in Registered : atoms.atomWeights[id] = 0
  /\ \E id \in Registered : atoms.atomWeights[id] > 1
  /\ \E i, j \in 1..Len(atomCalls) :
       /\ i # j
       /\ Range(atomCalls[i].ids) \cap Range(atomCalls[j].ids) # {}

\* the components collectAtoms looks at in a unit: the formula itself, the
\* clause itself when it does not split, its components otherwise
ComponentsOfBody(body) ==
  IF ~body.isClause THEN <<body>>
  ELSE LET comps == IF body.lits = <<>> THEN <<>> ELSE SplitComponents(body.lits)
       IN IF Len(comps) <= 1 THEN <<ClauseBody(body.lits)>>
          ELSE [i \in 1..Len(comps) |-> ClauseBody(comps[i])]

Rename(l, rho) == [l EXCEPT !.arg = IF @ \in Variables THEN rho[@] ELSE @]

Complement(l) == [l EXCEPT !.positive = ~l.positive]

\* equal as multisets of literals after a renaming of the variables
EqualUpToRenaming(c1, c2) ==
  /\ Len(c1) = Len(c2)
  /\ \E rho \in [Variables -> Variables] :
       /\ \A v, w \in Variables : rho[v] = rho[w] => v = w
       /\ \A l \in Range(c2) \cup {Rename(c1[i], rho) : i \in 1..Len(c1)} :
            Cardinality({i \in 1..Len(c1) : Rename(c1[i], rho) = l}) =
            Cardinality({i \in 1..Len(c2) : c2[i] = l})

\* the relation the ids are to decide
SameComponent(c1, c2) ==
  IF c1.isClause /\ c2.isClause
  THEN \/ EqualUpToRenaming(c1.lits, c2.lits)
       \/ /\ Len(c1.lits) = 1
          /\ Len(c2.lits) = 1
          /\ EqualUpToRenaming(<<Complement(c1.lits[1])>>, c2.lits)
  ELSE ~c1.isClause /\ ~c2.isClause /\ c1.text = c2.text

\* C11: over the collectAtoms calls made so far on the minimizer, two
\* components have the same id exactly if they are clause components that are
\* variants of each other (for components of one literal, variants up to the
\* polarity as well), or formula units with the same text.
C11_SameIdIffVariant ==
  \A i, j \in 1..Len(atomCalls) :
    LET ci == ComponentsOfBody(unitBody[atomCalls[i].unit])
        cj == ComponentsOfBody(unitBody[atomCalls[j].unit])
    IN /\ Len(ci) = Len(atomCalls[i].ids)
       /\ \A k \in 1..Len(ci) : \A l \in 1..Len(cj) :
            (atomCalls[i].ids[k] = atomCalls[j].ids[l]) <=> SameComponent(ci[k], cj[l])

\* three calls made: a literal and its complement under one id, a clause of
\* two literals and a variant of it under one id, and a formula unit
C11_Witness ==
  /\ Len(atomCalls) = NumUnits
  /\ \E i, j \in 1..Len(atomCalls) :
       LET bi == unitBody[atomCalls[i].unit]
           bj == unitBody[atomCalls[j].unit]
       IN /\ i # j
          /\ bi = ClauseBody(<<Lit("p", TRUE, "X")>>)
          /\ bj = ClauseBody(<<Lit("p", FALSE, "Y"), Lit("q", TRUE, "a")>>)
          /\ atomCalls[i].ids[1] = atomCalls[j].ids[1]
  /\ \E i \in 1..Len(atomCalls) : ~unitBody[atomCalls[i].unit].isClause

\* ------------------------------------------------------------------ traverse alone
InitTraverse ==
  /\ parents \in ProofDags
  /\ unitColor \in [Units -> Colors]
  /\ inheritedColor \in InheritedColors(parents, unitColor)
  /\ vdebug \in BOOLEAN
  /\ unitBody = ProofBodies
  /\ config = [optTarget |-> OT_WEIGHT, noSlicing |-> FALSE, showStats |-> FALSE]
  /\ InitMinimizer

NextTraverse ==
  \/ TraverseBegin
  \/ TraversePush
  \/ TraverseVisited
  \/ TraversePop

SpecTraverse == InitTraverse /\ [][NextTraverse]_vars

TraverseFinished == pc = "encode"

\* ------------------------------------------------------------------ traverse: claims
Occurrences(seq, x) == Cardinality({i \in 1..Len(seq) : seq[i] = x})

SomeParentLeadsToColor(u) == \E p \in ParentSet(u) : infos[p].leadsToColor

\* C1 (as stated): after traverse, leadsToColor(u) holds exactly when u is
\* colored or some parent of u has leadsToColor; a transparent unit without
\* parents has leadsToColor false.
C1_Original ==
  TraverseFinished =>
    \A u \in DOMAIN infos :
      infos[u].leadsToColor <=>
        (infos[u].color # COLOR_TRANSPARENT \/ SomeParentLeadsToColor(u))

\* C1 (amended): after traverse, leadsToColor(u) holds exactly when u is
\* colored, or the recorded inputInheritedColor of u is not TRANSPARENT, or
\* some parent of u has leadsToColor.
C1_LeadsToColor ==
  TraverseFinished =>
    \A u \in DOMAIN infos :
      infos[u].leadsToColor <=>
        \/ infos[u].color # COLOR_TRANSPARENT
        \/ infos[u].inputInheritedColor # COLOR_TRANSPARENT
        \/ SomeParentLeadsToColor(u)

\* a transparent input unit that inherited a color, below a transparent unit
\* that leads to color only through it
C1_Witness ==
  /\ TraverseFinished
  /\ \E u \in DOMAIN infos, c \in DOMAIN infos :
       /\ parents[u] = <<>>
       /\ infos[u].color = COLOR_TRANSPARENT
       /\ infos[u].inputInheritedColor # COLOR_TRANSPARENT
       /\ infos[u].leadsToColor
       /\ u \in ParentSet(c)
       /\ infos[c].color = COLOR_TRANSPARENT
       /\ infos[c].leadsToColor

EdgeCount(u, p) == Occurrences(parents[u], p)

SuccessorsFor(info, color) ==
  IF color = COLOR_LEFT THEN info.leftSuccessors
  ELSE IF color = COLOR_RIGHT THEN info.rightSuccessors
  ELSE info.transparentSuccessors

HasReachableChild(p, color) ==
  \E u \in Reachable : p \in ParentSet(u) /\ unitColor[u] = color

\* C5: after traverse, a reachable unit u occurs in the successor list of its
\* parent p that matches color(u) once per edge (u, p) and in no other list of
\* p; isParentOfLeft / isParentOfRight of p tell whether p has a reachable LEFT
\* / RIGHT child.
C5_SuccessorLists ==
  TraverseFinished =>
    \A p \in DOMAIN infos :
      /\ \A u \in Units, c \in Colors :
           Occurrences(SuccessorsFor(infos[p], c), u) =
             IF u \in Reachable /\ c = unitColor[u] THEN EdgeCount(u, p) ELSE 0
      /\ infos[p].isParentOfLeft <=> HasReachableChild(p, COLOR_LEFT)
      /\ infos[p].isParentOfRight <=> HasReachableChild(p, COLOR_RIGHT)

\* a parent with a doubled edge from a RIGHT child, and a parent of a LEFT child
C5_Witness ==
  /\ TraverseFinished
  /\ \E p \in DOMAIN infos, u \in DOMAIN infos :
       /\ EdgeCount(u, p) > 1
       /\ unitColor[u] = COLOR_RIGHT
       /\ Occurrences(infos[p].rightSuccessors, u) > 1
       /\ infos[p].isParentOfRight
  /\ \E p \in DOMAIN infos : infos[p].isParentOfLeft

HasLeftAndRightParent(u) ==
  /\ \E p \in ParentSet(u) : unitColor[p] = COLOR_LEFT
  /\ \E p \in ParentSet(u) : unitColor[p] = COLOR_RIGHT

\* C6: in a build that evaluates assertions, traverse ends in an assertion
\* violation when a unit of the proof has a LEFT and a RIGHT parent, in either
\* order, and no assertion of processParent is violated otherwise.
C6_BothColorsAssert ==
  vdebug =>
    /\ TraverseFinished => ~\E u \in Reachable : HasLeftAndRightParent(u)
    /\ pc = "assertion_violation" => \E u \in Reachable : HasLeftAndRightParent(u)

\* the RIGHT parent was processed first and the LEFT parent trips the assertion
C6_Witness ==
  /\ pc = "assertion_violation"
  /\ \E u \in DOMAIN infos :
       /\ Len(parents[u]) = 2
       /\ unitColor[parents[u][1]] = COLOR_RIGHT
       /\ unitColor[parents[u][2]] = COLOR_LEFT
       /\ infos[u].state = HAS_RIGHT_PARENT

IsSuffix(old, new) ==
  /\ Len(old) <= Len(new)
  /\ SubSeq(new, Len(new) - Len(old) + 1, Len(new)) = old

\* C20: in every step of a traversal each unit that has a UnitInfo keeps it,
\* a flag isParentOfLeft or isParentOfRight that is true stays true, and each
\* of the three successor lists keeps the elements it had (new ones are put
\* in front).
C20_FlagsMonotone ==
  [][\A u \in DOMAIN infos :
       /\ u \in DOMAIN infos'
       /\ infos[u].isParentOfLeft => infos'[u].isParentOfLeft
       /\ infos[u].isParentOfRight => infos'[u].isParentOfRight
       /\ IsSuffix(infos[u].leftSuccessors, infos'[u].leftSuccessors)
       /\ IsSuffix(infos[u].rightSuccessors, infos'[u].rightSuccessors)
       /\ IsSuffix(infos[u].transparentSuccessors, infos'[u].transparentSuccessors)]_vars

\* a unit recorded as premise of a LEFT child and, in another step, of a
\* RIGHT child: the flag set first is still set
C20_Witness ==
  \E u \in DOMAIN infos :
    /\ infos[u].isParentOfLeft
    /\ infos[u].isParentOfRight
    /\ Len(infos[u].leftSuccessors) + Len(infos[u].rightSuccessors) >= 2

\* ------------------------------------------------------------------ getInterpolant: claims
EncodedUnits == {u \in DOMAIN infos : IsEncoded(u)}

BenchmarkBuilt == pc \in {"minimize", "solving", "collect", "generate", "done"}

ModelReturned == solver.mres \in {APPROXIMATE, OPTIMAL}

SlicedOffBuilt == pc \in {"generate", "done"}

InBenchmark(f) == \E e \in resBenchmark : e.formula = f

\* C2: whatever the solver returns (FAIL, or a model that satisfies the
\* generated formulas), the slicedOff set handed to the interpolant generator
\* does not contain the refutation.
C2_RefutationNotSliced ==
  \A i \in 1..Len(out.generatorCalls) :
    (solver.mres = FAIL \/ Satisfies(solver.assignment, solver.cost)) =>
      \A u \in DOMAIN infos :
        infos[u].isRefutation => u \notin out.generatorCalls[i].slicedOff

\* the refutation is encoded and another unit is sliced off
C2_Witness ==
  /\ pc = "done"
  /\ solver.mres = OPTIMAL
  /\ IsEncoded(Refutation)
  /\ out.generatorCalls[1].slicedOff # {}

\* C3: with an OPTIMAL or APPROXIMATE result, slicedOff is exactly the set of
\* traversed units that are transparent, lead to color and have S assigned
\* "true".
C3_SlicedOffExact ==
  SlicedOffBuilt /\ ModelReturned =>
    slicedOff =
      {u \in DOMAIN infos :
         /\ infos[u].color = COLOR_TRANSPARENT
         /\ infos[u].leadsToColor
         /\ solver.assignment[pred(S, getUnitId(u))] = "true"}

\* an approximate model that slices one encoded unit and keeps another, in a
\* proof with a colored unit
C3_Witness ==
  /\ pc = "done"
  /\ solver.mres = APPROXIMATE
  /\ slicedOff # {}
  /\ EncodedUnits \ slicedOff # {}
  /\ \E u \in DOMAIN infos : infos[u].color # COLOR_TRANSPARENT

\* C4: after FAIL, getInterpolant reads nothing from the assignment, goes on
\* to the generator and calls it on the refutation with an empty slicedOff.
C4_FailFallsBack ==
  solver.mres = FAIL =>
    /\ pc \in {"generate", "done"}
    /\ out.assignmentReads = {}
    /\ slicedOff = {}
    /\ pc = "done" =>
         out.generatorCalls = <<[refutation |-> Refutation, slicedOff |-> {}]>>

\* the solver failed on a problem with encoded units, statistics were asked for
C4_Witness ==
  /\ pc = "done"
  /\ solver.mres = FAIL
  /\ config.showStats
  /\ EncodedUnits # {}
  /\ Len(out.generatorCalls) = 1

\* C9: with noSlicing the problem contains not S(u) for every encoded unit and
\* the slicedOff set of every returned model is empty; without noSlicing a
\* unit that is not an inherited-color leaf has not S(u) exactly when it is the
\* refutation.
C9_NoSlicing ==
  BenchmarkBuilt =>
    /\ \A u \in EncodedUnits :
         IF config.noSlicing
         THEN InBenchmark(Not(pred(S, getUnitId(u))))
         ELSE infos[u].inputInheritedColor = COLOR_TRANSPARENT =>
                (InBenchmark(Not(pred(S, getUnitId(u)))) <=> infos[u].isRefutation)
    /\ config.noSlicing /\ ModelReturned /\ SlicedOffBuilt => slicedOff = {}

\* noSlicing, a model was returned, and a unit other than the refutation and
\* other than a leaf is encoded
C9_Witness ==
  /\ pc = "done"
  /\ config.noSlicing
  /\ solver.mres = OPTIMAL
  /\ \E u \in EncodedUnits :
       /\ ~infos[u].isRefutation
       /\ infos[u].inputInheritedColor = COLOR_TRANSPARENT

\* ------------------------------------------------------------------ the encoding: claims
\* the model gives the constant the value "true"
IsTrue(c) == c \in DOMAIN solver.assignment /\ solver.assignment[c] = "true"

TraceColorsTrue(u) == {t \in {R, B, G} : IsTrue(pred(t, getUnitId(u)))}

IsInheritedLeaf(u) == infos[u].inputInheritedColor # COLOR_TRANSPARENT

\* C21: in every model of the generated problem each encoded unit, the leaves
\* with an inherited input color included, has exactly one of R, B, G true.
C21_DistinctTraceColor ==
  ModelReturned =>
    \A u \in EncodedUnits : Cardinality(TraceColorsTrue(u)) = 1

\* C21, for the units that are not inherited-color leaves
C21_DistinctNonLeaf ==
  ModelReturned =>
    \A u \in EncodedUnits :
      ~IsInheritedLeaf(u) => Cardinality(TraceColorsTrue(u)) = 1

\* a model in which a unit with transparent parents takes the trace color R
C21_Witness ==
  /\ ModelReturned
  /\ \E u \in EncodedUnits :
       /\ ~IsInheritedLeaf(u)
       /\ TraceColorsTrue(u) = {R}

\* the model gives the constant of type t of unit u the value "true"
T(t, u) == IsTrue(pred(t, getUnitId(u)))

\* the parents of u that lead to color
LeadingParents(u) == {q \in ParentSet(u) : infos[q].leadsToColor}

ColoredLeadingParents(u, color) == {q \in LeadingParents(u) : infos[q].color = color}

\* the units addNodeFormulas gives the grey-parent formulas
GreyParentCase(u) ==
  /\ u \in EncodedUnits
  /\ ~IsInheritedLeaf(u)
  /\ \A q \in LeadingParents(u) : infos[q].color = COLOR_TRANSPARENT

\* C22: in every returned model, for an encoded unit that is no leaf and whose
\* parents with leadsToColor are all transparent, with "parent" ranging over the
\* parents with leadsToColor only: RC iff not S and some parent R; BC iff not S
\* and some parent B; parent R and parent B exclude each other; S and some
\* parent R gives R; S and some parent B gives B; S and all parents G gives G;
\* not S gives G.
C22_GreyParents ==
  ModelReturned =>
    \A u \in DOMAIN infos :
      GreyParentCase(u) =>
        LET someR == \E q \in LeadingParents(u) : T(R, q)
            someB == \E q \in LeadingParents(u) : T(B, q)
            allG == \A q \in LeadingParents(u) : T(G, q)
        IN /\ T(RC, u) <=> (~T(S, u) /\ someR)
           /\ T(BC, u) <=> (~T(S, u) /\ someB)
           /\ ~(someR /\ someB)
           /\ T(S, u) /\ someR => T(R, u)
           /\ T(S, u) /\ someB => T(B, u)
           /\ T(S, u) /\ allG => T(G, u)
           /\ ~T(S, u) => T(G, u)

\* a unit with a parent that leads to color and one that does not; the first
\* has R in the model and the unit is on the red boundary
C22_Witness ==
  /\ ModelReturned
  /\ \E u \in DOMAIN infos :
       /\ GreyParentCase(u)
       /\ ParentSet(u) \ LeadingParents(u) # {}
       /\ \E q \in LeadingParents(u) : T(R, q)
       /\ T(RC, u)

\* u has a parent of the color and none of the other color
OneColorCase(u, color, other) ==
  /\ u \in EncodedUnits
  /\ ~IsInheritedLeaf(u)
  /\ ColoredLeadingParents(u, color) # {}
  /\ ColoredLeadingParents(u, other) = {}

\* no formula of the problem relates S(u) to a trace color of a parent of u
NoGreyParentFormulas(u) ==
  \A e \in resBenchmark :
    pred(S, getUnitId(u)) \in ConstantsOf(e.formula) =>
      \A q \in ParentSet(u) : \A t \in {R, B, G} :
        pred(t, getUnitId(q)) \notin ConstantsOf(e.formula)

\* the colored-parent relations for a unit with parents of color X only
ColoredParentRelations(u, tX, tOpp, xc, oppc) ==
  /\ T(xc, u) <=> ~T(S, u)
  /\ ~T(oppc, u)
  /\ T(S, u) => T(tX, u)
  /\ ~T(S, u) => T(G, u)
  /\ \A q \in ColoredLeadingParents(u, COLOR_TRANSPARENT) : ~T(tOpp, q)
  /\ NoGreyParentFormulas(u)

\* C23: in every returned model, an encoded unit with LEFT parents and no
\* RIGHT parent has RC iff not S, BC false, S implies R, not S implies G and
\* no transparent parent with B; with RIGHT parents only the same holds with
\* the colors swapped; no grey-parent formula is generated for the unit.
C23_ColoredParents ==
  ModelReturned =>
    \A u \in DOMAIN infos :
      /\ OneColorCase(u, COLOR_LEFT, COLOR_RIGHT) =>
           ColoredParentRelations(u, R, B, RC, BC)
      /\ OneColorCase(u, COLOR_RIGHT, COLOR_LEFT) =>
           ColoredParentRelations(u, B, R, BC, RC)

\* a unit with a RIGHT parent and a transparent parent that leads to color is
\* on the blue boundary, and another model slices a unit with a RIGHT parent
C23_Witness ==
  /\ ModelReturned
  /\ \E u \in DOMAIN infos :
       /\ OneColorCase(u, COLOR_RIGHT, COLOR_LEFT)
       /\ \/ /\ ColoredLeadingParents(u, COLOR_TRANSPARENT) # {}
             /\ T(BC, u)
          \/ T(S, u) /\ T(B, u)

\* the ids of the components of u, as collectAtoms returns them
ComponentIdsOf(u) ==
  LET ids == CollectAtoms(atoms, unitBody[u]).ids
  IN {ids[i] : i \in 1..Len(ids)}

\* C24: a traversed transparent unit with an inherited input color has no
\* parent that leads to color and is encoded; every returned model has S
\* false, G and D true and the V of each of its components true, the unit is
\* never put into slicedOff, and the problem has no boundary or fringe
\* constant of the unit (no grey-parent, colored-parent or fringe formula).
C24_InheritedLeaf ==
  \A u \in DOMAIN infos :
    infos[u].color = COLOR_TRANSPARENT /\ IsInheritedLeaf(u) =>
      /\ LeadingParents(u) = {}
      /\ IsEncoded(u)
      /\ BenchmarkBuilt =>
           /\ \A t \in {RC, BC, RF, BF} :
                pred(t, getUnitId(u)) \notin Declared(resBenchmark)
           /\ NoGreyParentFormulas(u)
      /\ ModelReturned =>
           /\ ~T(S, u)
           /\ T(G, u)
           /\ T(D, u)
           /\ \A id \in ComponentIdsOf(u) : IsTrue(pred(V, id))
      /\ SlicedOffBuilt => u \notin slicedOff

\* a leaf with inherited color and a component, next to a unit the model slices
C24_Witness ==
  /\ pc = "done"
  /\ ModelReturned
  /\ slicedOff # {}
  /\ \E u \in DOMAIN infos :
       /\ infos[u].color = COLOR_TRANSPARENT
       /\ IsInheritedLeaf(u)
       /\ ComponentIdsOf(u) # {}

\* the children of u in the proof of the refutation, by color
ChildrenOfColor(u, color) ==
  {c \in Reachable : u \in ParentSet(c) /\ unitColor[c] = color}

\* the fringe of u as its transparent successors determine it
FringeOfSuccessors(u, tf, tc, oppc) ==
  \A c \in ChildrenOfColor(u, COLOR_TRANSPARENT) :
    (T(tf, c) \/ T(tc, c)) /\ ~T(oppc, c)

FringeUnit(u) ==
  /\ u \in EncodedUnits
  /\ ~IsInheritedLeaf(u)
  /\ ~infos[u].isRefutation

C26_ParentOfColored ==
  \A u \in EncodedUnits :
    /\ BenchmarkBuilt =>
         /\ ChildrenOfColor(u, COLOR_LEFT) # {} =>
              InBenchmark(Not(pred(B, getUnitId(u))))
         /\ ChildrenOfColor(u, COLOR_RIGHT) # {} =>
              InBenchmark(Not(pred(R, getUnitId(u))))
    /\ ModelReturned =>
         /\ ChildrenOfColor(u, COLOR_LEFT) # {} => ~T(B, u)
         /\ ChildrenOfColor(u, COLOR_RIGHT) # {} => ~T(R, u)
         /\ ChildrenOfColor(u, COLOR_LEFT) # {} /\ ChildrenOfColor(u, COLOR_RIGHT) # {} =>
              TraceColorsTrue(u) = {G}

\* an encoded unit with a LEFT and a RIGHT child, in a returned model
C26_Witness ==
  /\ ModelReturned
  /\ \E u \in EncodedUnits :
       /\ ChildrenOfColor(u, COLOR_LEFT) # {}
       /\ ChildrenOfColor(u, COLOR_RIGHT) # {}
       /\ T(G, u)

\* the constants of the problem that are keyed by a unit id
UnitConstants == {c \in Declared(resBenchmark) : c[2] # V}

\* C29: every constant of the generated problem that is keyed by a unit is a
\* constant of an encoded unit; in particular the transparent successors in
\* the fringe formulas and the transparent parents in the grey-parent and
\* colored-parent formulas of an encoded unit are encoded, and colored units
\* and units that do not lead to color have no constant.
C29_VariablesOfEncodedUnits ==
  BenchmarkBuilt =>
    /\ \A c \in UnitConstants : \E u \in EncodedUnits : c[3] = getUnitId(u)
    /\ \A u \in EncodedUnits :
         /\ \A i \in 1..Len(infos[u].transparentSuccessors) :
              IsEncoded(infos[u].transparentSuccessors[i])
         /\ \A i \in 1..Len(ParentSummary(u).gParents) :
              \E q \in EncodedUnits : getUnitId(q) = ParentSummary(u).gParents[i]
    /\ \A u \in Units :
         ~IsEncoded(u) => \A c \in UnitConstants : c[3] # getUnitId(u)

\* an encoded unit has a transparent parent that leads to color, whose
\* constants its formulas use, and a transparent parent that does not
C29_Witness ==
  /\ BenchmarkBuilt
  /\ \E u \in EncodedUnits :
       /\ ParentSet(u) \ LeadingParents(u) # {}
       /\ \E q \in LeadingParents(u) :
            /\ infos[q].color = COLOR_TRANSPARENT
            /\ pred(R, getUnitId(q)) \in UnitConstants
            /\ u \in {infos[q].transparentSuccessors[i] :
                        i \in 1..Len(infos[q].transparentSuccessors)}

\* ------------------------------------------------------------------ the traversal: claims
\* an inference has at most two premises
MaxPremises == 2

\* the premises the stack entry has not yet been asked for
RemainingParents(entry) == Len(parents[entry.unit]) + 1 - entry.parentIterator

\* what is left to do: units not yet inserted, premises not yet asked for,
\* entries not yet popped
TraverseMeasure ==
  (MaxPremises + 2) * (NumUnits - Cardinality(DOMAIN infos))
    + SumOver(LAMBDA i : RemainingParents(stack[i]) + 1, 1..Len(stack))

StackUnits == {stack[i].unit : i \in 1..Len(stack)}

\* the traversal can go on, each unit is on the stack at most once, only
\* units of the proof have an entry, and the finished traversal has an empty
\* stack and an entry for each unit of the proof
TraverseState ==
  /\ pc = "traverse" =>
       /\ stack # <<>>
       /\ \A i \in 1..Len(stack) : RemainingParents(stack[i]) >= 0
  /\ Cardinality(StackUnits) = Len(stack)
  /\ StackUnits \subseteq DOMAIN infos
  /\ DOMAIN infos \subseteq Reachable
  /\ TraverseFinished => stack = <<>> /\ DOMAIN infos = Reachable

\* C27: every step of the traversal other than a violated assertion decreases
\* what is left to do, so the traversal ends; it ends with an empty stack and
\* with a UnitInfo for exactly the units reachable from the refutation; a
\* unit that is pushed has no UnitInfo yet, and no UnitInfo is ever removed,
\* so no unit is pushed twice.
C27_TraverseTerminates ==
  /\ []TraverseState
  /\ [][pc = "traverse" =>
          /\ pc' = "assertion_violation" \/ TraverseMeasure' < TraverseMeasure
          /\ TraverseMeasure' >= 0
          /\ DOMAIN infos \subseteq DOMAIN infos'
          /\ Len(stack') > Len(stack) =>
               /\ stack'[Len(stack')].unit \notin DOMAIN infos
               /\ stack'[Len(stack')].unit \in DOMAIN infos']_vars

\* the finished traversal of a proof in which one unit is a premise of two
\* units: it was pushed for the first and found in the map for the second
C27_Witness ==
  /\ TraverseFinished
  /\ stack = <<>>
  /\ Cardinality(DOMAIN infos) = NumUnits
  /\ \E u \in DOMAIN infos :
       Cardinality({c \in Reachable : u \in ParentSet(c)}) >= 2

\* how often unit u is on the successor lists of a UnitInfo
SuccessorCount(info, u) ==
  Occurrences(info.leftSuccessors, u) + Occurrences(info.rightSuccessors, u)
    + Occurrences(info.transparentSuccessors, u)

\* the step executes processParent for unit u and its premise q
ProcessParentCalled(u, q) ==
  /\ u \in DOMAIN infos
  /\ q \in DOMAIN infos
  /\ SuccessorCount(infos'[q], u) = SuccessorCount(infos[q], u) + 1

\* q is completely processed: processParent has run for each of its own
\* parent edges, and q is popped or the top entry with no premise left
CompletelyProcessed(q) ==
  /\ q \in DOMAIN infos
  /\ \A r \in ParentSet(q) :
       r \in DOMAIN infos /\ SuccessorCount(infos[r], q) = EdgeCount(q, r)
  /\ \/ q \notin StackUnits
     \/ q = Top.unit /\ RemainingParents(Top) = 0

\* C28: a step executes processParent for at most one edge and only for a
\* parent that is completely processed; from then on the parent stays so and
\* its leadsToColor does not change; when the traversal has finished,
\* processParent has run once for each parent edge between units of the proof.
C28_ProcessParentOrder ==
  /\ [](TraverseFinished =>
          \A u \in Reachable : \A q \in ParentSet(u) :
            SuccessorCount(infos[q], u) = EdgeCount(u, q))
  /\ [][/\ \A u \in DOMAIN infos : \A q \in DOMAIN infos :
             /\ SuccessorCount(infos'[q], u) \in
                  {SuccessorCount(infos[q], u), SuccessorCount(infos[q], u) + 1}
             /\ ProcessParentCalled(u, q) =>
                  /\ CompletelyProcessed(q)
                  /\ infos'[u].leadsToColor = (infos[u].leadsToColor \/ infos[q].leadsToColor)
                  /\ \A v \in DOMAIN infos : \A r \in DOMAIN infos :
                       ProcessParentCalled(v, r) => v = u /\ r = q
        /\ \A q \in DOMAIN infos :
             CompletelyProcessed(q) /\ pc' # "assertion_violation" =>
               /\ infos'[q].leadsToColor = infos[q].leadsToColor
               /\ q \notin {stack'[i].unit : i \in 1..Len(stack')}]_vars

\* a unit that got leadsToColor from its own parent is the premise of two
\* edges: pushed for the first, found in the map for the second; both edges
\* read the final value
C28_Witness ==
  /\ TraverseFinished
  /\ \E u \in DOMAIN infos : \E q \in ParentSet(u) :
       /\ EdgeCount(u, q) = 2
       /\ SuccessorCount(infos[q], u) = 2
       /\ unitColor[q] = COLOR_TRANSPARENT
       /\ inheritedColor[q] = COLOR_INVALID
       /\ infos[q].leadsToColor
       /\ infos[u].leadsToColor

\* ------------------------------------------------------------------ Unit::markLeft, Unit::markRight: claims
\* any sequence of calls on freshly constructed units, in either build
InitMarks ==
  /\ parents = [u \in Units |-> <<>>]
  /\ unitColor = [u \in Units |-> COLOR_TRANSPARENT]
  /\ inheritedColor = [u \in Units |-> COLOR_INVALID]
  /\ vdebug \in BOOLEAN
  /\ unitBody = ProofBodies
  /\ config = [optTarget |-> OT_WEIGHT, noSlicing |-> FALSE, showStats |-> FALSE]
  /\ InitMinimizer

NextMarks ==
  \/ MarkLeft
  \/ MarkRight

SpecMarks == InitMarks /\ [][NextMarks]_vars

MarkedBoth(m, u) == m.left[u] = 1 /\ m.right[u] = 1

\* the step is a call of op on u
MarkCalled(op, u) == marks'.calls = marks.calls + 1 /\ marks'.call = <<op, u>>

\* the call changes no mark and violates no assertion
MarkIdempotent == marks'.left = marks.left /\ marks'.right = marks.right /\ marks'.pc = "running"

\* the call stops at the assertion, no mark changed
MarkStopped == marks'.left = marks.left /\ marks'.right = marks.right /\ marks'.pc = "assertion_violation"

\* C30: where assertions are evaluated no unit is ever marked both left and
\* right; in any build a unit becomes marked both only by a call whose
\* assertion does not hold (markRight on a left-marked unit or markLeft on a
\* right-marked one), and such a call violates the assertion where it is
\* evaluated; a repeated call of the same mark changes nothing and violates
\* nothing; no call clears a mark.
C30_Marks ==
  /\ [](vdebug => \A u \in Units : ~MarkedBoth(marks, u))
  /\ [][\A u \in Units :
          /\ MarkedBoth(marks', u) /\ ~MarkedBoth(marks, u) =>
               \/ MarkCalled("markRight", u) /\ marks.left[u] = 1
               \/ MarkCalled("markLeft", u) /\ marks.right[u] = 1
          /\ vdebug /\ MarkCalled("markRight", u) /\ marks.left[u] = 1 => MarkStopped
          /\ vdebug /\ MarkCalled("markLeft", u) /\ marks.right[u] = 1 => MarkStopped
          /\ MarkCalled("markLeft", u) /\ marks.left[u] = 1 /\ marks.right[u] = 0 =>
               MarkIdempotent
          /\ MarkCalled("markRight", u) /\ marks.right[u] = 1 /\ marks.left[u] = 0 =>
               MarkIdempotent
          /\ marks.left[u] = 1 => marks'.left[u] = 1
          /\ marks.right[u] = 1 => marks'.right[u] = 1]_vars

\* markLeft twice on one unit, markRight on another, then markRight on the
\* first unit stops at the assertion
C30_Witness ==
  /\ vdebug
  /\ marks.pc = "assertion_violation"
  /\ marks.calls = MaxCalls
  /\ \E u \in Units : \E w \in Units \ {u} :
       /\ marks.call = <<"markRight", u>>
       /\ marks.left[u] = 1
       /\ marks.right[u] = 0
       /\ marks.right[w] = 1

\* ------------------------------------------------------------------ terms
\* A term is a tuple: the functor first, the arguments after it.  A variable
\* is the functor "var" applied to its name and its bank: "q" the bank of the
\* query (bank 0 of runRobUnify), "r" the bank of the indexed terms, "s" the
\* special variables of the substitution tree.
VarOf(n, bank) == <<"var", <<n>>, <<bank>>>>

Var(n) == VarOf(n, "q")

SpecialVar(n) == VarOf(ToString(n), "s")

IsVar(t) == t[1] = "var"

IsSpecialVar(t) == IsVar(t) /\ t[3] = <<"s">>

Fn0(fn) == <<fn>>

Fn1(fn, t) == <<fn, t>>

Fn2(fn, s, t) == <<fn, s, t>>

Plus(s, t) == <<"+", s, t>>

Numerals == {"1", "2", "3"}

SortFunctors == {"Int", "srt", "arrow", "Bool"}

IsSort(t) == t[1] \in SortFunctors

\* theory->isInterpretedFunction / isInterpretedConstant
IsInterpreted(t) == t[1] = "+" \/ t[1] \in Numerals

IsAC(t) == t[1] = "+"

IsApplication(t) == t[1] = "ap"

\* the variables of an inserted term moved to the bank of the index
RECURSIVE ToResultBank(_)
ToResultBank(t) ==
  IF IsVar(t) THEN VarOf(t[2][1], "r")
  ELSE [i \in 1..Len(t) |-> IF i = 1 THEN t[1] ELSE ToResultBank(t[i])]

\* ------------------------------------------------------------------ substitution
RECURSIVE Deref(_, _)
Deref(t, subs) ==
  IF IsVar(t) /\ t \in DOMAIN subs THEN Deref(subs[t], subs) ELSE t

RECURSIVE Apply(_, _)
Apply(t, subs) ==
  LET d == Deref(t, subs)
  IN IF IsVar(d) THEN d
     ELSE [i \in 1..Len(d) |-> IF i = 1 THEN d[1] ELSE Apply(d[i], subs)]

RECURSIVE VarsOf(_)
VarsOf(t) ==
  IF IsVar(t) THEN {t}
  ELSE UNION {VarsOf(t[i]) : i \in 2..Len(t)}

Occurs(v, t, subs) == v \in VarsOf(Apply(t, subs))

\* ------------------------------------------------------------------ AC
\* the summands of a sum, the nested sums flattened
RECURSIVE AcIter(_)
AcIter(t) ==
  IF IsAC(t) THEN AcIter(t[2]) \o AcIter(t[3]) ELSE <<t>>

RECURSIVE RemoveOne(_, _)
RemoveOne(seq, e) ==
  IF seq = <<>> THEN <<>>
  ELSE IF Head(seq) = e THEN Tail(seq)
  ELSE <<Head(seq)>> \o RemoveOne(Tail(seq), e)

InSeq(seq, e) == \E i \in 1..Len(seq) : seq[i] = e

\* what is left of s1 after cancelling its elements against those of s2
RECURSIVE SortedDiff(_, _)
SortedDiff(s1, s2) ==
  IF s1 = <<>> THEN <<>>
  ELSE IF InSeq(s2, Head(s1))
       THEN SortedDiff(Tail(s1), RemoveOne(s2, Head(s1)))
       ELSE <<Head(s1)>> \o SortedDiff(Tail(s1), s2)

RECURSIVE Sum(_)
Sum(seq) ==
  IF Len(seq) = 1 THEN seq[1]
  ELSE Plus(Sum(SubSeq(seq, 1, Len(seq) - 1)), seq[Len(seq)])

Functors(seq) == [i \in 1..Len(seq) |-> <<seq[i][1]>>]

AnyVar(seq) == \E i \in 1..Len(seq) : IsVar(seq[i])

\* ------------------------------------------------------------------ policies
OFF == "OFF"
INTERP_ONLY == "INTERP_ONLY"
ONE_INTERP == "ONE_INTERP"
AC1 == "AC1"
AC2 == "AC2"
FUNC_EXT == "FUNC_EXT"

Policies == {OFF, INTERP_ONLY, ONE_INTERP, AC1, AC2, FUNC_EXT}

NoAbstraction == [kind |-> "none", unify |-> <<>>, constr |-> <<>>]

NeverEqual == [kind |-> "never", unify |-> <<>>, constr |-> <<>>]

EqualIf(unify, constr) == [kind |-> "equalif", unify |-> unify, constr |-> constr]

UnificationConstraint(s, t) == <<s, t>>

CanAbstract_EitherInterpreted(policy, t1, t2) ==
  /\ ~IsSort(t1) /\ ~IsSort(t2)
  /\ policy \in {INTERP_ONLY, ONE_INTERP}
  /\ IsInterpreted(t1) \/ IsInterpreted(t2)

CanAbstract_BothInterpreted(policy, t1, t2) ==
  /\ ~IsSort(t1) /\ ~IsSort(t2)
  /\ policy \in {INTERP_ONLY, ONE_INTERP}
  /\ IsInterpreted(t1) /\ IsInterpreted(t2)

\* INTERP_ONLY and ONE_INTERP: whether the roots of two terms allow the pair
\* to become a constraint
CanAbstract(policy, t1, t2) ==
  /\ ~IsSort(t1) /\ ~IsSort(t2)
  /\ CASE policy = INTERP_ONLY -> IsInterpreted(t1) /\ IsInterpreted(t2)
       [] policy = ONE_INTERP -> IsInterpreted(t1) \/ IsInterpreted(t2)
       [] OTHER -> FALSE

\* AC1 and AC2 on two sums: the common summands are cancelled
AbstractAC_MatchLeftovers(policy, t1, t2, subs) ==
  LET diff1 == SortedDiff(AcIter(Apply(t1, subs)), AcIter(Apply(t2, subs)))
      diff2 == SortedDiff(AcIter(Apply(t2, subs)), AcIter(Apply(t1, subs)))
  IN IF diff1 = <<>> /\ diff2 = <<>> THEN EqualIf(<<>>, <<>>)
     ELSE IF diff1 = <<>> \/ diff2 = <<>> THEN NeverEqual
     ELSE IF policy = AC2 /\ Len(diff1) = 1 /\ IsVar(diff1[1])
       THEN EqualIf(<<UnificationConstraint(diff1[1], Sum(diff2))>>, <<>>)
     ELSE IF policy = AC2 /\ Len(diff2) = 1 /\ IsVar(diff2[1])
       THEN EqualIf(<<UnificationConstraint(diff2[1], Sum(diff1))>>, <<>>)
     ELSE IF policy = AC2 /\ Len(diff1) = Len(diff2)
             /\ \A i \in 1..Len(diff1) : IsVar(diff1[i]) \/ IsVar(diff2[Len(diff2) + 1 - i])
       THEN EqualIf([i \in 1..Len(diff1) |->
                       UnificationConstraint(diff1[i], diff2[Len(diff2) + 1 - i])], <<>>)
     ELSE IF AnyVar(diff1) \/ AnyVar(diff2)
       THEN EqualIf(<<>>, <<UnificationConstraint(Sum(diff1), Sum(diff2))>>)
     ELSE IF SortedDiff(Functors(diff1), Functors(diff2)) # <<>>
             \/ SortedDiff(Functors(diff2), Functors(diff1)) # <<>>
       THEN NeverEqual
     ELSE EqualIf(<<>>, <<UnificationConstraint(Sum(diff1), Sum(diff2))>>)

AbstractAC(policy, t1, t2, subs) ==
  LET diff1 == SortedDiff(AcIter(Apply(t1, subs)), AcIter(Apply(t2, subs)))
      diff2 == SortedDiff(AcIter(Apply(t2, subs)), AcIter(Apply(t1, subs)))
  IN IF diff1 = <<>> /\ diff2 = <<>> THEN EqualIf(<<>>, <<>>)
     ELSE IF diff1 = <<>> \/ diff2 = <<>> THEN NeverEqual
     ELSE IF policy = AC2 /\ Len(diff1) = 1 /\ IsVar(diff1[1])
       THEN EqualIf(<<UnificationConstraint(diff1[1], Sum(diff2))>>, <<>>)
     ELSE IF policy = AC2 /\ Len(diff2) = 1 /\ IsVar(diff2[1])
       THEN EqualIf(<<UnificationConstraint(diff2[1], Sum(diff1))>>, <<>>)
     ELSE IF AnyVar(diff1) \/ AnyVar(diff2)
       THEN EqualIf(<<>>, <<UnificationConstraint(Sum(diff1), Sum(diff2))>>)
     ELSE IF SortedDiff(Functors(diff1), Functors(diff2)) # <<>>
             \/ SortedDiff(Functors(diff2), Functors(diff1)) # <<>>
       THEN NeverEqual
     ELSE EqualIf(<<>>, <<UnificationConstraint(Sum(diff1), Sum(diff2))>>)

IsFunctionSort(s) == IsVar(s) \/ s[1] = "arrow"

AbstractFuncExt_WholeApplications(t1, t2, subs) ==
  IF IsApplication(t1) /\ IsApplication(t2)
  THEN EqualIf(<<UnificationConstraint(t1[2], t2[2]), UnificationConstraint(t1[3], t2[3])>>,
               <<UnificationConstraint(t1, t2)>>)
  ELSE NoAbstraction

\* FUNC_EXT on two applications ap(argSort, resSort, head, arg): the sorts and
\* the heads are unified, the arguments of function sort become a constraint
AbstractFuncExt(t1, t2, subs) ==
  IF /\ IsApplication(t1)
     /\ IsApplication(t2)
     /\ IsFunctionSort(Deref(t1[2], subs)) \/ IsFunctionSort(Deref(t2[2], subs))
  THEN EqualIf(<<UnificationConstraint(t1[2], t2[2]),
                 UnificationConstraint(t1[3], t2[3]),
                 UnificationConstraint(t1[4], t2[4])>>,
               <<UnificationConstraint(t1[5], t2[5])>>)
  ELSE NoAbstraction

\* MismatchHandler::tryAbstract: t1 and t2 are dereferenced, differ, and
\* neither is a variable
TryAbstract(policy, t1, t2, subs) ==
  CASE policy \in {AC1, AC2} ->
         IF IsAC(t1) /\ IsAC(t2) THEN AbstractAC(policy, t1, t2, subs) ELSE NoAbstraction
    [] policy = FUNC_EXT -> AbstractFuncExt(t1, t2, subs)
    [] policy = OFF -> NoAbstraction
    [] OTHER ->
         IF CanAbstract(policy, t1, t2)
         THEN EqualIf(<<>>, <<UnificationConstraint(t1, t2)>>)
         ELSE NoAbstraction

\* ------------------------------------------------------------------ AbstractingUnifier
Failed == [ok |-> FALSE, subs |-> <<>>, constr |-> <<>>]

Unifier(subs, constr) == [ok |-> TRUE, subs |-> subs, constr |-> constr]

ArgumentPairs(t1, t2) ==
  [i \in 1..(Len(t1) - 1) |-> UnificationConstraint(t1[i + 1], t2[i + 1])]

\* the loop of AbstractingUnifier::unify: todo is a stack with its top at the
\* end, so of the arguments of two terms the last pair is taken up first
RECURSIVE UnifyLoop(_, _, _, _)
UnifyLoop(policy, todo, subs, constr) ==
  IF todo = <<>> THEN Unifier(subs, constr)
  ELSE LET cur == todo[Len(todo)]
           rest == SubSeq(todo, 1, Len(todo) - 1)
           dt1 == Deref(cur[1], subs)
           dt2 == Deref(cur[2], subs)
       IN IF Apply(dt1, subs) = Apply(dt2, subs)
          THEN UnifyLoop(policy, rest, subs, constr)
          ELSE IF IsVar(dt1) /\ ~Occurs(dt1, dt2, subs)
          THEN UnifyLoop(policy, rest, subs @@ (dt1 :> dt2), constr)
          ELSE IF IsVar(dt2) /\ ~Occurs(dt2, dt1, subs)
          THEN UnifyLoop(policy, rest, subs @@ (dt2 :> dt1), constr)
          ELSE IF IsVar(dt1) \/ IsVar(dt2) THEN Failed
          ELSE LET abs == TryAbstract(policy, dt1, dt2, subs)
               IN IF abs.kind = "never" THEN Failed
                  ELSE IF abs.kind = "equalif"
                  THEN UnifyLoop(policy, rest \o abs.unify, subs, constr \o abs.constr)
                  ELSE IF dt1[1] = dt2[1] /\ Len(dt1) = Len(dt2)
                  THEN UnifyLoop(policy, rest \o ArgumentPairs(dt1, dt2), subs, constr)
                  ELSE Failed

\* the state of fixedPointIteration: the constraints still to be looked at
\* (todo, its top at the end) and those kept
FixedPointStart(u) ==
  [ok |-> u.ok, todo |-> u.constr, subs |-> u.subs, constr |-> <<>>]

FixedPointDone(st) == ~st.ok \/ st.todo = <<>>

FixedPointStep_KeepAll(policy, st) ==
  [st EXCEPT !.todo = SubSeq(@, 1, Len(@) - 1),
             !.constr = @ \o <<st.todo[Len(st.todo)]>>]

\* one round of the loop of fixedPointIteration: the top constraint is
\* unified again; without progress it is kept, with progress every constraint
\* goes back on the stack
FixedPointStep(policy, st) ==
  LET cur == st.todo[Len(st.todo)]
      rest == SubSeq(st.todo, 1, Len(st.todo) - 1)
      res == UnifyLoop(policy, <<cur>>, st.subs, <<>>)
      progress == ~(res.subs = st.subs /\ res.constr = <<cur>>)
  IN IF ~res.ok THEN [ok |-> FALSE, todo |-> <<>>, subs |-> <<>>, constr |-> <<>>]
     ELSE IF progress
     THEN [ok |-> TRUE, todo |-> rest \o st.constr \o res.constr,
           subs |-> res.subs, constr |-> <<>>]
     ELSE [ok |-> TRUE, todo |-> rest, subs |-> st.subs,
           constr |-> st.constr \o <<cur>>]

RECURSIVE FixedPointLoop(_, _)
FixedPointLoop(policy, st) ==
  IF FixedPointDone(st) THEN st ELSE FixedPointLoop(policy, FixedPointStep(policy, st))

FixedPointResult(st) == IF st.ok THEN Unifier(st.subs, st.constr) ELSE Failed

FixedPointIteration(policy, u) ==
  IF ~u.ok THEN u ELSE FixedPointResult(FixedPointLoop(policy, FixedPointStart(u)))

\* AbstractingUnifier::unify(a, 0, b, 0, MismatchHandler(policy), fixedPointIteration)
Unify(policy, fixedPoint, s, t) ==
  LET u == UnifyLoop(policy, <<UnificationConstraint(s, t)>>, <<>>, <<>>)
  IN IF fixedPoint THEN FixedPointIteration(policy, u) ELSE u

ConstraintLiterals_None(u) == <<>>

\* UnificationConstraintStack::literals: the constraints under the
\* substitution, those with two equal sides left out
ConstraintLiterals(u) ==
  SelectSeq([i \in 1..Len(u.constr) |->
               <<Apply(u.constr[i][1], u.subs), Apply(u.constr[i][2], u.subs)>>],
            LAMBDA lit : lit[1] # lit[2])

NoUnifier == [ok |-> FALSE]

\* the UnificationResultSpec that runRobUnify builds of a unifier
UnificationResultSpec(u, s, t) ==
  IF ~u.ok THEN NoUnifier
  ELSE [ok |-> TRUE,
        querySigma |-> Apply(s, u.subs),
        resultSigma |-> Apply(t, u.subs),
        constraints |-> ConstraintLiterals(u)]

runRobUnify(s, t, policy, fixedPoint) ==
  UnificationResultSpec(Unify(policy, fixedPoint, s, t), s, t)

\* ------------------------------------------------------------------ substitution tree
\* The tree is kept as its root-to-leaf paths: a path is the sequence of the
\* bindings <<special variable, term>> of the nodes from the root to a leaf,
\* and the paths through a node share the prefix up to it.
EmptyIndex == [paths |-> <<>>, nextVar |-> 2]

TypedTermList(t, sort) == [term |-> t, sort |-> sort]

\* what Node::childByTop tells children apart by
TopOf(t) == IF IsVar(t) THEN t ELSE <<t[1], <<ToString(Len(t))>>>>

\* the common generalisation of the node term s and the inserted term t: term
\* is the generalised node term, splits the <<new variable, subterm of s>>
\* taken out of s, binds the bindings left to place for the inserted term
RECURSIVE Generalise(_, _, _)
RECURSIVE GeneraliseArgs(_, _, _, _)
Generalise(s, t, n) ==
  IF s = t THEN [term |-> s, splits |-> <<>>, binds |-> <<>>, n |-> n]
  ELSE IF IsSpecialVar(s)
  THEN [term |-> s, splits |-> <<>>, binds |-> <<(<<s, t>>)>>, n |-> n]
  ELSE IF ~IsVar(s) /\ ~IsVar(t) /\ TopOf(s) = TopOf(t)
  THEN GeneraliseArgs(s, t, 2, n)
  ELSE [term |-> SpecialVar(n), splits |-> <<(<<SpecialVar(n), s>>)>>,
        binds |-> <<(<<SpecialVar(n), t>>)>>, n |-> n + 1]

GeneraliseArgs(s, t, i, n) ==
  IF i > Len(s) THEN [term |-> s, splits |-> <<>>, binds |-> <<>>, n |-> n]
  ELSE LET g == Generalise(s[i], t[i], n)
           rest == GeneraliseArgs([s EXCEPT ![i] = g.term], t, i + 1, g.n)
       IN [term |-> rest.term, splits |-> g.splits \o rest.splits,
           binds |-> g.binds \o rest.binds, n |-> rest.n]

Reverse(seq) == [i \in 1..Len(seq) |-> seq[Len(seq) + 1 - i]]

SpecialNum(v, n) == CHOOSE k \in 0..n : SpecialVar(k) = v

\* the bindings of a queue as a chain of nodes, the largest variable first
RECURSIVE BindingChain(_, _)
BindingChain(q, n) ==
  IF DOMAIN q = {} THEN <<>>
  ELSE LET v == CHOOSE w \in DOMAIN q :
                  \A u \in DOMAIN q : SpecialNum(u, n) <= SpecialNum(w, n)
       IN <<(<<v, q[v]>>)>> \o BindingChain([u \in DOMAIN q \ {v} |-> q[u]], n)

BindingMap(binds) ==
  [v \in {binds[i][1] : i \in 1..Len(binds)} |->
     binds[CHOOSE i \in 1..Len(binds) : binds[i][1] = v][2]]

\* SubstitutionTree::insert below depth d: cand are the paths through the
\* node reached, q the bindings of the inserted term still to be placed
RECURSIVE InsertAt(_, _, _, _, _, _)
InsertAt(paths, cand, d, q, n, prefix) ==
  LET live == {i \in cand : d <= Len(paths[i].path)}
  IN IF live = {}
     THEN [paths |-> paths, newPath |-> prefix \o BindingChain(q, n), n |-> n]
     ELSE LET v == paths[CHOOSE i \in live : TRUE].path[d][1]
              t == q[v]
              matching == {i \in live : TopOf(paths[i].path[d][2]) = TopOf(t)}
              qrest == [u \in DOMAIN q \ {v} |-> q[u]]
          IN IF matching = {}
             THEN [paths |-> paths,
                   newPath |-> prefix \o <<(<<v, t>>)>> \o BindingChain(qrest, n),
                   n |-> n]
             ELSE LET s == paths[CHOOSE i \in matching : TRUE].path[d][2]
                      g == Generalise(s, t, n)
                      seg == <<(<<v, g.term>>)>> \o Reverse(g.splits)
                      paths2 == [i \in 1..Len(paths) |->
                                   IF i \in matching
                                   THEN [paths[i] EXCEPT !.path =
                                           SubSeq(@, 1, d - 1) \o seg
                                             \o SubSeq(@, d + 1, Len(@))]
                                   ELSE paths[i]]
                  IN InsertAt(paths2, matching, d + 1, qrest @@ BindingMap(g.binds),
                              g.n, prefix \o <<(<<v, g.term>>)>>)

\* TermSubstitutionTree::insert: special variable 0 stands for the term,
\* special variable 1 for its sort
IndexInsertTerm(idx, tt) ==
  LET q0 == (SpecialVar(0) :> ToResultBank(tt.term)) @@ (SpecialVar(1) :> ToResultBank(tt.sort))
      r == InsertAt(idx.paths, 1..Len(idx.paths), 1, q0, idx.nextVar, <<>>)
  IN [paths |-> Append(r.paths, [leaf |-> tt, path |-> r.newPath]), nextVar |-> r.n]

\* the iterator on the way to one leaf: a node is entered if its binding
\* unifies with what the query has become
RECURSIVE Associate(_, _, _, _)
Associate(policy, path, i, u) ==
  IF ~u.ok \/ i > Len(path) THEN u
  ELSE Associate(policy, path, i + 1, UnifyLoop(policy, <<path[i]>>, u.subs, u.constr))

QueryBindings(query) ==
  Unifier((SpecialVar(0) :> query.term) @@ (SpecialVar(1) :> query.sort), <<>>)

LeafUnifier_NoFixedPoint(idx, i, query, policy, fixedPoint) ==
  Associate(policy, idx.paths[i].path, 1, QueryBindings(query))

\* the unifier the iterator has at leaf i, after fixedPointIteration if asked for
LeafUnifier(idx, i, query, policy, fixedPoint) ==
  LET u == Associate(policy, idx.paths[i].path, 1, QueryBindings(query))
  IN IF fixedPoint THEN FixedPointIteration(policy, u) ELSE u

\* what checkTermMatchesWithUnifFun keeps of the result at leaf i
LeafResult(idx, i, query, policy, fixedPoint) ==
  LET u == LeafUnifier(idx, i, query, policy, fixedPoint)
  IN IF ~u.ok THEN [ok |-> FALSE]
     ELSE [ok |-> TRUE,
           data |-> idx.paths[i].leaf,
           querySigma |-> Apply(query.term, u.subs),
           resultSigma |-> Apply(ToResultBank(idx.paths[i].leaf.term), u.subs),
           constraints |-> ConstraintLiterals(u)]

\* getUwa(query, policy, fixedPointIteration) run to its end: one result for
\* each leaf the iterator reaches with a unifier
getUwa(idx, query, policy, fixedPoint) ==
  SelectSeq([i \in 1..Len(idx.paths) |-> LeafResult(idx, i, query, policy, fixedPoint)],
            LAMBDA r : r.ok)

\* ------------------------------------------------------------------ the terms of the tests
x == Var("x")
y == Var("y")
z == Var("z")
a == Fn0("a")
b == Fn0("b")
c == Fn0("c")
f(t) == Fn1("f", t)
g(t) == Fn1("g", t)
p(t) == Fn1("p", t)
f2(s, t) == Fn2("f2", s, t)
num(n) == Fn0(ToString(n))
Plus3(s, t, u) == Plus(Plus(s, t), u)
Plus4(s, t, u, v) == Plus(Plus3(s, t, u), v)

IntSort == <<"Int">>
Bool == <<"Bool">>
srt == <<"srt">>
arrow(s, t) == <<"arrow", s, t>>
ap(argSort, resSort, head, arg) == <<"ap", argSort, resSort, head, arg>>

\* higher_order: a, b : srt -> srt, c : srt, f : (srt -> srt) -> srt,
\* g : srt -> (srt -> srt)
ap_f_a == ap(arrow(srt, srt), srt, Fn0("f"), a)
ap_f_b == ap(arrow(srt, srt), srt, Fn0("f"), b)
ap_g_c == ap(srt, arrow(srt, srt), Fn0("g"), c)
\* hol_03: f1, f2 : srt -> srt, h1, h2 : (srt -> srt) -> srt
ap_h1_f1 == ap(arrow(srt, srt), srt, Fn0("h1"), Fn0("f1"))
ap_h2_f1 == ap(arrow(srt, srt), srt, Fn0("h2"), Fn0("f1"))
ap_h1_f2 == ap(arrow(srt, srt), srt, Fn0("h1"), Fn0("f2"))
\* hol_04, hol_05: c1, c2 : alpha, h : alpha -> beta, with their sort arguments
c1(s) == Fn1("c1", s)
c2(s) == Fn1("c2", s)
h(s, t) == Fn2("h", s, t)
ap_h_c1_arrow == ap(arrow(srt, srt), srt, h(arrow(srt, srt), srt), c1(arrow(srt, srt)))
ap_h_c2_arrow == ap(arrow(srt, srt), srt, h(arrow(srt, srt), srt), c2(arrow(srt, srt)))
ap_h_c1_srt == ap(srt, srt, h(srt, srt), c1(srt))
ap_h_c2_srt == ap(srt, srt, h(srt, srt), c2(srt))

\* the terms the tests insert and the terms they ask for, by the sugar of the test
INT_SUGAR == "INT_SUGAR"
HOL_SUGAR == "HOL_SUGAR"
higher_order == "higher_order"
literal_indexing == "literal_indexing"

Sugars == {INT_SUGAR, HOL_SUGAR, higher_order, literal_indexing}

Inserted(sugar) ==
  CASE sugar = INT_SUGAR ->
         {TypedTermList(t, IntSort) :
            t \in {Plus(num(1), num(1)), Plus(num(1), a), a, f(x),
                   Plus3(a, b, c), Plus4(a, b, a, c)}}
    [] sugar = literal_indexing ->
         {TypedTermList(t, Bool) :
            t \in {p(Plus(num(1), num(1))), p(Plus(num(1), a)),
                   p(Plus(b, num(2))), p(Plus(num(2), b))}}
    [] sugar = higher_order ->
         {TypedTermList(ap_f_a, srt), TypedTermList(ap_g_c, arrow(srt, srt)),
          TypedTermList(Fn0("g"), arrow(srt, arrow(srt, srt)))}
    [] sugar = HOL_SUGAR ->
         {TypedTermList(ap_h1_f1, srt), TypedTermList(ap_h2_f1, srt),
          TypedTermList(ap_h_c1_arrow, srt), TypedTermList(ap_h_c1_srt, srt),
          TypedTermList(ap_h_c2_srt, srt)}

Queries(sugar) ==
  CASE sugar = INT_SUGAR ->
         {TypedTermList(t, IntSort) :
            t \in {Plus(b, num(2)), x, f(a), g(x), Plus(num(3), a), Plus3(a, y, x)}}
    [] sugar = literal_indexing -> {TypedTermList(p(Plus(b, num(2))), Bool)}
    [] sugar = higher_order ->
         {TypedTermList(ap_f_b, srt), TypedTermList(x, arrow(srt, srt))}
    [] sugar = HOL_SUGAR ->
         {TypedTermList(ap_h1_f2, srt), TypedTermList(ap_h_c1_arrow, srt),
          TypedTermList(ap_h_c2_arrow, srt)}

\* the pairs the tests hand to runRobUnify
RobPairs ==
  {<<f(Plus(b, num(2))), f(Plus(x, num(2)))>>,
   <<f(Plus(x, num(2))), f(a)>>,
   <<f(a), g(Plus(num(1), a))>>,
   <<f(Plus(a, b)), f(Plus(x, y))>>,
   <<f2(x, Plus(x, num(1))), f2(a, a)>>,
   <<f2(x, Plus(a, x)), f2(c, Plus(b, a))>>,
   <<f2(Plus(a, x), x), f2(Plus(b, a), c)>>,
   <<f2(f2(y, x), Plus3(a, y, x)), f2(f2(b, c), Plus3(c, b, a))>>,
   <<f2(Plus3(a, x, y), f2(x, y)), f2(Plus3(c, b, a), f2(b, c))>>,
   <<Plus4(a, b, c, a), Plus4(a, b, x, y)>>,
   <<f2(b, Plus3(a, b, c)), f2(b, Plus3(x, y, c))>>,
   <<f2(Plus3(a, b, c), c), f2(Plus3(x, y, z), z)>>,
   <<f2(c, Plus3(a, b, c)), f2(z, Plus3(x, y, z))>>,
   <<f2(x, Plus3(a, b, c)), f2(x, Plus3(x, b, a))>>,
   <<f2(Plus3(a, b, c), f2(x, b)), f2(Plus3(x, y, a), f2(x, y))>>,
   <<f2(f2(x, b), Plus3(a, b, c)), f2(f2(x, y), Plus3(x, y, a))>>,
   <<Plus3(a, y, x), Plus3(a, b, c)>>,
   <<f(Plus(b, num(2))), f(Plus(num(1), a))>>,
   <<g(f(Plus(b, num(2)))), g(f(Plus(num(1), num(1))))>>,
   <<x, f(x)>>,
   <<ap_h1_f2, ap_h1_f1>>,
   <<ap_h1_f2, ap_h2_f1>>}

\* ------------------------------------------------------------------ the tests as a state machine
MaxInserted == 3

NoQuery == [term |-> <<"none">>, sort |-> <<"none">>]

\* getTermIndex() with the options of the test
NewIndexTest(policy, fixedPoint, sugar) ==
  [mode |-> "index", policy |-> policy, fixedPoint |-> fixedPoint, sugar |-> sugar,
   index |-> EmptyIndex, inserted |-> <<>>,
   query |-> NoQuery, checkedAt |-> 0, results |-> <<>>]

\* the options of a runRobUnify test
NewUnifierTest(policy, fixedPoint) ==
  [mode |-> "unifier", policy |-> policy, fixedPoint |-> fixedPoint,
   status |-> "idle", pair |-> <<>>, st |-> FixedPointStart(Failed), result |-> NoUnifier]

\* the minimizer and the clausifier are not used
InitOutsideUwa ==
  /\ parents = [u \in Units |-> <<>>]
  /\ unitColor = [u \in Units |-> COLOR_TRANSPARENT]
  /\ inheritedColor = [u \in Units |-> COLOR_INVALID]
  /\ vdebug = FALSE
  /\ unitBody = ProofBodies
  /\ config = [optTarget |-> OT_WEIGHT, noSlicing |-> FALSE, showStats |-> FALSE]
  /\ pc = "start"
  /\ infos = <<>>
  /\ stack = <<>>
  /\ resBenchmark = {}
  /\ atoms = NoAtoms
  /\ solver = NoResult
  /\ slicedOff = {}
  /\ out = NoOutput
  /\ atomCalls = <<>>
  /\ clausify = NotStarted
  /\ marks = UnmarkedUnits

\* an index test: any policy, with or without fixed point iteration
InitUwa ==
  /\ InitOutsideUwa
  /\ uwa \in {NewIndexTest(policy, fixedPoint, sugar) :
                policy \in Policies, fixedPoint \in BOOLEAN, sugar \in Sugars}

\* a test of the unifier alone
InitUnify ==
  /\ InitOutsideUwa
  /\ uwa \in {NewUnifierTest(policy, fixedPoint) :
                policy \in Policies, fixedPoint \in BOOLEAN}

uwaUnchanged ==
  UNCHANGED <<marks, clausify, atomCalls, inputVars, traverseVars, minimizeVars>>

\* index->insert(t)
IndexInsert ==
  /\ uwa.mode = "index"
  /\ Len(uwa.inserted) < MaxInserted
  /\ \E tt \in Inserted(uwa.sugar) :
       /\ \A i \in 1..Len(uwa.inserted) : uwa.inserted[i] # tt
       /\ uwa' = [uwa EXCEPT !.index = IndexInsertTerm(@, tt),
                             !.inserted = Append(@, tt)]
  /\ uwaUnchanged

\* checkTermMatches(index, uwa, fixedPointIteration, query, ...): the results
\* of getUwa are collected
CheckTermMatches ==
  /\ uwa.mode = "index"
  /\ \E query \in Queries(uwa.sugar) :
       uwa' = [uwa EXCEPT !.query = query,
                          !.checkedAt = Len(uwa.inserted),
                          !.results = getUwa(uwa.index, query, uwa.policy, uwa.fixedPoint)]
  /\ uwaUnchanged

\* runRobUnify up to the end of the main loop of unify
RunRobUnify ==
  /\ uwa.mode = "unifier"
  /\ uwa.status = "idle"
  /\ \E pair \in RobPairs :
       LET u == UnifyLoop(uwa.policy, <<UnificationConstraint(pair[1], pair[2])>>, <<>>, <<>>)
       IN uwa' = [uwa EXCEPT
                    !.pair = pair,
                    !.st = FixedPointStart(u),
                    !.status = IF uwa.fixedPoint /\ u.ok THEN "fixedPointIteration" ELSE "done",
                    !.result = IF uwa.fixedPoint /\ u.ok THEN NoUnifier
                               ELSE UnificationResultSpec(u, pair[1], pair[2])]
  /\ uwaUnchanged

\* one round of the loop of fixedPointIteration
FixedPointRound ==
  /\ uwa.mode = "unifier"
  /\ uwa.status = "fixedPointIteration"
  /\ ~FixedPointDone(uwa.st)
  /\ uwa' = [uwa EXCEPT !.st = FixedPointStep(uwa.policy, @)]
  /\ uwaUnchanged

\* fixedPointIteration returns, and runRobUnify with it
FixedPointReturn ==
  /\ uwa.mode = "unifier"
  /\ uwa.status = "fixedPointIteration"
  /\ FixedPointDone(uwa.st)
  /\ uwa' = [uwa EXCEPT
               !.status = "done",
               !.result = UnificationResultSpec(FixedPointResult(uwa.st),
                                                uwa.pair[1], uwa.pair[2])]
  /\ uwaUnchanged

NextUwa ==
  \/ IndexInsert
  \/ CheckTermMatches

SpecUwa == InitUwa /\ [][NextUwa]_vars

NextUnify ==
  \/ RunRobUnify
  \/ FixedPointRound
  \/ FixedPointReturn

SpecUnify == InitUnify /\ [][NextUnify]_vars

\* ------------------------------------------------------------------ unification with abstraction: claims
\* eqModAC of the tests: equal up to the order and the nesting of summands
RECURSIVE eqModAC(_, _)
RECURSIVE permEq(_, _)
eqModAC(s, t) ==
  IF IsVar(s) \/ IsVar(t) THEN s = t
  ELSE IF IsAC(s) /\ IsAC(t) THEN permEq(AcIter(s), AcIter(t))
  ELSE /\ s[1] = t[1]
       /\ Len(s) = Len(t)
       /\ \A i \in 2..Len(s) : eqModAC(s[i], t[i])

permEq(ss, ts) ==
  IF ss = <<>> THEN ts = <<>>
  ELSE \E j \in 1..Len(ts) :
         /\ eqModAC(ss[1], ts[j])
         /\ permEq(Tail(ss), SubSeq(ts, 1, j - 1) \o SubSeq(ts, j + 1, Len(ts)))

\* the disequality s != t, whichever side is written first
IsDisequality(lit, s, t) ==
  \/ eqModAC(lit[1], s) /\ eqModAC(lit[2], t)
  \/ eqModAC(lit[1], t) /\ eqModAC(lit[2], s)

\* the entries the index held when the last query was made
EntriesAtCheck == SubSeq(uwa.inserted, 1, uwa.checkedAt)

ResultsFor(entry) == SelectSeq(uwa.results, LAMBDA r : r.data = entry)

Checked == uwa.mode = "index" /\ uwa.query # NoQuery

\* C14: under ONE_INTERP a query and an entry that are not variables and have
\* different roots give a result exactly if one of the two roots is
\* interpreted, and the result then has the two terms unchanged and the one
\* constraint that they differ; no result has a constraint between two
\* uninterpreted roots.
C14_OneInterp ==
  (Checked /\ uwa.policy = ONE_INTERP) =>
    /\ \A i \in 1..Len(EntriesAtCheck) :
         LET entry == EntriesAtCheck[i]
             found == ResultsFor(entry)
         IN (/\ ~IsVar(uwa.query.term)
             /\ ~IsVar(entry.term)
             /\ uwa.query.sort = entry.sort
             /\ TopOf(uwa.query.term) # TopOf(entry.term))
            => IF IsInterpreted(uwa.query.term) \/ IsInterpreted(entry.term)
               THEN /\ Len(found) = 1
                    /\ found[1].querySigma = uwa.query.term
                    /\ found[1].resultSigma = ToResultBank(entry.term)
                    /\ Len(found[1].constraints) = 1
                    /\ IsDisequality(found[1].constraints[1],
                                     uwa.query.term, ToResultBank(entry.term))
               ELSE found = <<>>
    /\ \A i \in 1..Len(uwa.results) :
         \A j \in 1..Len(uwa.results[i].constraints) :
           LET lit == uwa.results[i].constraints[j]
           IN IsInterpreted(lit[1]) \/ IsInterpreted(lit[2])

\* the query f(a) on an index that holds 1+a and a: a result with the
\* constraint for the sum, none for the constant
C14_Witness ==
  /\ Checked
  /\ uwa.policy = ONE_INTERP
  /\ uwa.query = TypedTermList(f(a), IntSort)
  /\ ResultsFor(TypedTermList(a, IntSort)) = <<>>
  /\ \E i \in 1..Len(EntriesAtCheck) : EntriesAtCheck[i] = TypedTermList(a, IntSort)
  /\ \E i \in 1..Len(uwa.results) :
       /\ uwa.results[i].data = TypedTermList(Plus(num(1), a), IntSort)
       /\ Len(uwa.results[i].constraints) = 1

\* C15: under INTERP_ONLY a query and an entry that are not variables and
\* differ give a result, with the two terms unchanged and the one constraint
\* that they differ, if both roots are interpreted, and none if the roots
\* differ and one of them is uninterpreted; every constraint is between two
\* interpreted roots.  In particular b+2 retrieves 1+1 and 1+a, and never the
\* constant a.
C15_InterpOnly ==
  (Checked /\ uwa.policy = INTERP_ONLY) =>
    /\ \A i \in 1..Len(EntriesAtCheck) :
         LET entry == EntriesAtCheck[i]
             found == ResultsFor(entry)
             both  == IsInterpreted(uwa.query.term) /\ IsInterpreted(entry.term)
         IN (/\ ~IsVar(uwa.query.term)
             /\ ~IsVar(entry.term)
             /\ uwa.query.sort = entry.sort
             /\ uwa.query.term # entry.term)
            => /\ both =>
                    /\ Len(found) = 1
                    /\ found[1].querySigma = uwa.query.term
                    /\ found[1].resultSigma = ToResultBank(entry.term)
                    /\ Len(found[1].constraints) = 1
                    /\ IsDisequality(found[1].constraints[1],
                                     uwa.query.term, ToResultBank(entry.term))
               /\ (~both /\ TopOf(uwa.query.term) # TopOf(entry.term)) => found = <<>>
    /\ \A i \in 1..Len(uwa.results) :
         \A j \in 1..Len(uwa.results[i].constraints) :
           LET lit == uwa.results[i].constraints[j]
           IN IsInterpreted(lit[1]) /\ IsInterpreted(lit[2])
    /\ uwa.query = TypedTermList(Plus(b, num(2)), IntSort) =>
         /\ \A i \in 1..Len(uwa.results) : IsInterpreted(uwa.results[i].data.term)
         /\ \A i \in 1..Len(EntriesAtCheck) :
              EntriesAtCheck[i].term \in {Plus(num(1), num(1)), Plus(num(1), a)}
                => Len(ResultsFor(EntriesAtCheck[i])) = 1

\* term_indexing_interp_only: 1+1, 1+a and then a inserted, b+2 queried
C15_Witness ==
  /\ Checked
  /\ uwa.policy = INTERP_ONLY
  /\ uwa.query = TypedTermList(Plus(b, num(2)), IntSort)
  /\ EntriesAtCheck = <<TypedTermList(Plus(num(1), num(1)), IntSort),
                        TypedTermList(Plus(num(1), a), IntSort),
                        TypedTermList(a, IntSort)>>
  /\ Len(uwa.results) = 2

WithoutIteration ==
  UnifyLoop(uwa.policy, <<UnificationConstraint(uwa.pair[1], uwa.pair[2])>>, <<>>, <<>>)

Returned == uwa.mode = "unifier" /\ uwa.status = "done"

over_approx_test_2 == <<f2(x, Plus(a, x)), f2(c, Plus(b, a))>>

\* C17: with fixed-point iteration unify returns none whenever one of the
\* constraints left by the unification, unified again under the substitution
\* found, is a clash; under AC1 f2(x, a+x) and f2(c, b+a) give the constraint
\* c != b without the iteration and none with it.
C17_IterationFails ==
  Returned =>
    /\ (/\ uwa.fixedPoint
        /\ WithoutIteration.ok
        /\ \E i \in 1..Len(WithoutIteration.constr) :
             ~UnifyLoop(uwa.policy, <<WithoutIteration.constr[i]>>,
                        WithoutIteration.subs, <<>>).ok)
       => ~uwa.result.ok
    /\ (uwa.policy = AC1 /\ uwa.pair = over_approx_test_2) =>
         IF uwa.fixedPoint THEN ~uwa.result.ok
         ELSE /\ uwa.result.ok
              /\ eqModAC(uwa.result.querySigma, f2(c, Plus(a, c)))
              /\ eqModAC(uwa.result.resultSigma, f2(c, Plus(b, a)))
              /\ Len(uwa.result.constraints) = 1
              /\ IsDisequality(uwa.result.constraints[1], c, b)

\* over_approx_test_2_bad_AC1_fixedPointIteration: the iteration has looked at
\* c != b and unify has returned none
C17_Witness ==
  /\ Returned
  /\ uwa.fixedPoint
  /\ uwa.policy = AC1
  /\ uwa.pair = over_approx_test_2
  /\ WithoutIteration.ok
  /\ ~uwa.result.ok

bottom_constraint_test_1 ==
  <<f2(f2(y, x), Plus3(a, y, x)), f2(f2(b, c), Plus3(c, b, a))>>

ac_test_02 == <<f2(c, Plus3(a, b, c)), f2(z, Plus3(x, y, z))>>

HasSummandIn(s, t) == \E i \in 1..Len(AcIter(s)) : InSeq(AcIter(t), AcIter(s)[i])

\* the unifier returned is a fixed point of the re-examination: no constraint
\* has equal sides (modulo AC under AC1 and AC2) or, under AC1 and AC2, a
\* summand common to its sides, and unifying a constraint again gives back
\* that constraint and the same substitution
AtFixedPoint ==
  /\ \A i \in 1..Len(uwa.result.constraints) :
       LET lit == uwa.result.constraints[i]
       IN IF uwa.policy \in {AC1, AC2}
          THEN ~eqModAC(lit[1], lit[2]) /\ ~HasSummandIn(lit[1], lit[2])
          ELSE lit[1] # lit[2]
  /\ \A i \in 1..Len(uwa.st.constr) :
       LET again == UnifyLoop(uwa.policy, <<uwa.st.constr[i]>>, uwa.st.subs, <<>>)
       IN /\ again.ok
          /\ again.subs = uwa.st.subs
          /\ again.constr = <<uwa.st.constr[i]>>

C18_Examples ==
  /\ (uwa.policy = AC1 /\ uwa.pair = bottom_constraint_test_1) =>
       /\ uwa.result.ok
       /\ IF uwa.fixedPoint THEN uwa.result.constraints = <<>>
          ELSE /\ Len(uwa.result.constraints) = 1
               /\ IsDisequality(uwa.result.constraints[1], Plus(b, c), Plus(c, b))
  /\ (uwa.policy = AC1 /\ uwa.pair = ac_test_02) =>
       /\ uwa.result.ok
       /\ Len(uwa.result.constraints) = 1
       /\ IF uwa.fixedPoint
          THEN IsDisequality(uwa.result.constraints[1], Plus(a, b), Plus(x, y))
          ELSE IsDisequality(uwa.result.constraints[1], Plus3(a, b, c), Plus3(x, y, c))

RECURSIVE TermSize(_)
RECURSIVE ConstraintsSize(_)
TermSize(t) ==
  IF IsVar(t) THEN 1
  ELSE IF Len(t) = 1 THEN 1
  ELSE IF Len(t) = 2 THEN 1 + TermSize(t[2])
  ELSE 1 + TermSize(t[2]) + ConstraintsSize(<<Tail(Tail(t))>>)

\* the size of the terms of a sequence of pairs of terms
ConstraintsSize(constr) ==
  IF constr = <<>> THEN 0
  ELSE LET lit == Head(constr)
       IN (IF Len(lit) = 0 THEN 0
           ELSE TermSize(lit[1]) + ConstraintsSize(<<Tail(lit)>>))
          + ConstraintsSize(Tail(constr))

\* the measure that a round of the iteration decreases, in this order: the
\* number of variables still unbound, the size of the constraints, the number
\* of constraints still to be looked at
Decreases(old, new) ==
  LET boundOld == Cardinality(DOMAIN old.subs)
      boundNew == Cardinality(DOMAIN new.subs)
      sizeOld == ConstraintsSize(old.todo \o old.constr)
      sizeNew == ConstraintsSize(new.todo \o new.constr)
  IN \/ boundNew > boundOld
     \/ boundNew = boundOld /\ sizeNew < sizeOld
     \/ boundNew = boundOld /\ sizeNew = sizeOld /\ Len(new.todo) < Len(old.todo)

C18_Returned ==
  Returned => /\ (uwa.fixedPoint /\ uwa.result.ok) => AtFixedPoint
              /\ C18_Examples

\* C18: with fixed-point iteration the re-examination of the constraints
\* comes to an end (every round either fails, binds a variable, makes the
\* constraints smaller or leaves one constraint less to look at; the loop
\* returns as soon as none is left), and the unifier returned is at a fixed
\* point; under AC1
\* the constraint b+c != c+b left without the iteration is eliminated by it
\* and a+b+c != x+y+c is refined to a+b != x+y.
C18_FixedPoint ==
  /\ []C18_Returned
  /\ [][FixedPointRound => (~uwa.st.ok' \/ Decreases(uwa.st, uwa.st'))]_vars

\* ac_test_02_AC1_bad_fixedPointIteration: returned after a round that refined
\* the constraint
C18_Witness ==
  /\ Returned
  /\ uwa.fixedPoint
  /\ uwa.policy = AC1
  /\ uwa.pair = ac_test_02
  /\ uwa.result.ok
  /\ uwa.result.constraints # ConstraintLiterals(WithoutIteration)
  /\ Len(uwa.result.constraints) = 1

\* s and t differ only where their two subterms are the two sides of a
\* constraint, all terms compared symbol by symbol
RECURSIVE DifferOnlyAtConstraints(_, _, _)
DifferOnlyAtConstraints(s, t, constr) ==
  \/ s = t
  \/ \E i \in 1..Len(constr) : constr[i] = <<s, t>> \/ constr[i] = <<t, s>>
  \/ /\ ~IsVar(s)
     /\ ~IsVar(t)
     /\ s[1] = t[1]
     /\ Len(s) = Len(t)
     /\ \A i \in 2..Len(s) : DifferOnlyAtConstraints(s[i], t[i], constr)

\* the summands of ss left after cancelling those it has in common with ts
RECURSIVE Leftover(_, _)
Leftover(ss, ts) ==
  IF ss = <<>> THEN <<>>
  ELSE IF \E j \in 1..Len(ts) : eqModAC(ss[1], ts[j])
  THEN LET j == CHOOSE k \in 1..Len(ts) : eqModAC(ss[1], ts[k])
       IN Leftover(Tail(ss), SubSeq(ts, 1, j - 1) \o SubSeq(ts, j + 1, Len(ts)))
  ELSE <<ss[1]>> \o Leftover(Tail(ss), ts)

\* ss is ls and ts is rs, each with the same further summands
SameSummandsAdded(ss, ls, ts, rs) ==
  /\ Leftover(ls, ss) = <<>>
  /\ Leftover(rs, ts) = <<>>
  /\ permEq(Leftover(ss, ls), Leftover(ts, rs))

\* the same modulo AC: equal sums need not be written alike, and a constraint
\* may be between two sums to which the same summands are added to give the
\* two subterms
RECURSIVE DifferOnlyAtConstraintsModAC(_, _, _)
DifferOnlyAtConstraintsModAC(s, t, constr) ==
  \/ eqModAC(s, t)
  \/ \E i \in 1..Len(constr) : IsDisequality(constr[i], s, t)
  \/ /\ IsAC(s)
     /\ IsAC(t)
     /\ \E i \in 1..Len(constr) :
          LET lhs == AcIter(constr[i][1])
              rhs == AcIter(constr[i][2])
          IN \/ SameSummandsAdded(AcIter(s), lhs, AcIter(t), rhs)
             \/ SameSummandsAdded(AcIter(s), rhs, AcIter(t), lhs)
  \/ /\ ~IsVar(s)
     /\ ~IsVar(t)
     /\ s[1] = t[1]
     /\ Len(s) = Len(t)
     /\ \A i \in 2..Len(s) : DifferOnlyAtConstraintsModAC(s[i], t[i], constr)

interp_04 == <<f(Plus(b, num(2))), f(Plus(num(1), a))>>

C13_Example ==
  (uwa.policy = ONE_INTERP /\ uwa.pair = interp_04) =>
    /\ uwa.result.ok
    /\ Len(uwa.result.constraints) = 1
    /\ IsDisequality(uwa.result.constraints[1], Plus(num(1), a), Plus(num(2), b))

\* C13 as stated: the two instances differ only at the sides of constraints,
\* symbol by symbol, under every policy, and are the same term if there is no
\* constraint.
C13_Original ==
  (Returned /\ uwa.result.ok) =>
    /\ DifferOnlyAtConstraints(uwa.result.querySigma, uwa.result.resultSigma,
                               uwa.result.constraints)
    /\ uwa.result.constraints = <<>> => uwa.result.querySigma = uwa.result.resultSigma
    /\ C13_Example

\* C13: the two instances of a unifier differ only at the sides of its
\* constraints: symbol by symbol under OFF, INTERP_ONLY, ONE_INTERP and
\* FUNC_EXT, and modulo AC under AC1 and AC2, where a constraint may also be
\* between two sums that give the two subterms once the same summands are
\* added to both;
\* without constraints the instances are the same term, under AC1 and AC2
\* the same modulo AC; f(b+2) and f(1+a) give the constraint 1+a != 2+b.
C13_Soundness ==
  (Returned /\ uwa.result.ok) =>
    /\ IF uwa.policy \in {AC1, AC2}
       THEN /\ DifferOnlyAtConstraintsModAC(uwa.result.querySigma, uwa.result.resultSigma,
                                            uwa.result.constraints)
            /\ uwa.result.constraints = <<>> =>
                 eqModAC(uwa.result.querySigma, uwa.result.resultSigma)
       ELSE /\ DifferOnlyAtConstraints(uwa.result.querySigma, uwa.result.resultSigma,
                                       uwa.result.constraints)
            /\ uwa.result.constraints = <<>> =>
                 uwa.result.querySigma = uwa.result.resultSigma
    /\ C13_Example

\* ac2_test_01: a unifier without constraints whose instances f2(c, a+b+c) and
\* f2(c, c+b+a) are equal only modulo AC
C13_Witness ==
  /\ Returned
  /\ uwa.policy = AC2
  /\ uwa.result.ok
  /\ uwa.result.constraints = <<>>
  /\ uwa.result.querySigma = f2(c, Plus3(a, b, c))
  /\ uwa.result.resultSigma = f2(c, Plus3(c, b, a))

top_level_constraints_2 ==
  /\ Checked
  /\ uwa.policy = AC2
  /\ uwa.fixedPoint
  /\ uwa.query = TypedTermList(Plus3(a, y, x), IntSort)
  /\ \E i \in 1..Len(EntriesAtCheck) :
       EntriesAtCheck[i] = TypedTermList(Plus3(a, b, c), IntSort)

ResultsForSum == ResultsFor(TypedTermList(Plus3(a, b, c), IntSort))

\* C19 as stated: the result for a+b+c has no constraint and both instances
\* are a+b+c.
C19_Original ==
  top_level_constraints_2 =>
    /\ Len(ResultsForSum) = 1
    /\ ResultsForSum[1].constraints = <<>>
    /\ eqModAC(ResultsForSum[1].querySigma, Plus3(a, b, c))
    /\ eqModAC(ResultsForSum[1].resultSigma, Plus3(a, b, c))

\* C19: under AC2 with fixed-point iteration the query a+y+x retrieves the
\* entry a+b+c with the one constraint b+c != x+y: the common summand a is
\* cancelled, the two variables of the query stay unbound and what is left
\* of the two sums is residualised.
C19_TopLevelConstraint ==
  top_level_constraints_2 =>
    /\ Len(ResultsForSum) = 1
    /\ Len(ResultsForSum[1].constraints) = 1
    /\ IsDisequality(ResultsForSum[1].constraints[1], Plus(b, c), Plus(x, y))
    /\ eqModAC(ResultsForSum[1].querySigma, Plus3(a, y, x))
    /\ eqModAC(ResultsForSum[1].resultSigma, Plus3(a, b, c))

\* top_level_constraints_2_with_fixedPointIteration: a+b+c and f(x) are in the
\* index when a+y+x is queried
C19_Witness ==
  /\ top_level_constraints_2
  /\ \E i \in 1..Len(EntriesAtCheck) : EntriesAtCheck[i] = TypedTermList(f(x), IntSort)
  /\ Len(ResultsForSum) = 1
  /\ Len(ResultsForSum[1].constraints) = 1

\* unify(q, k, policy) of the query and an entry, with their sorts
DirectUnifier(entry) ==
  LET u == UnifyLoop(uwa.policy,
                     <<UnificationConstraint(uwa.query.term, ToResultBank(entry.term)),
                       UnificationConstraint(uwa.query.sort, ToResultBank(entry.sort))>>,
                     <<>>, <<>>)
  IN UnificationResultSpec(IF uwa.fixedPoint THEN FixedPointIteration(uwa.policy, u) ELSE u,
                           uwa.query.term, ToResultBank(entry.term))

\* the same constraints, in any order, each written either way round
RECURSIVE SameConstraints(_, _)
SameConstraints(cs, ds) ==
  IF cs = <<>> THEN ds = <<>>
  ELSE \E j \in 1..Len(ds) :
         /\ IsDisequality(cs[1], ds[j][1], ds[j][2])
         /\ SameConstraints(Tail(cs), SubSeq(ds, 1, j - 1) \o SubSeq(ds, j + 1, Len(ds)))

SameInstances(res, direct) ==
  /\ eqModAC(res.querySigma, direct.querySigma)
  /\ eqModAC(res.resultSigma, direct.resultSigma)

\* C12 as stated: one result, with the unifier's instances and constraints,
\* for each entry that unifies with the query, and none for the others.
C12_Original ==
  Checked =>
    \A i \in 1..Len(EntriesAtCheck) :
      LET direct == DirectUnifier(EntriesAtCheck[i])
          found == ResultsFor(EntriesAtCheck[i])
      IN IF direct.ok
         THEN /\ Len(found) = 1
              /\ SameInstances(found[1], direct)
              /\ SameConstraints(found[1].constraints, direct.constraints)
         ELSE found = <<>>

\* the retrievals that give exactly the unifiers of unify
ExactRetrieval == uwa.fixedPoint \/ uwa.policy \notin {AC1, AC2}

\* C12: the iterator yields at most one result for an entry, and one with the
\* instances of unify(q, k, policy) for each entry on which unify succeeds;
\* every result differs from its query instance only at its constraints.
\* With fixed-point iteration, or under a policy other than AC1 and AC2, the
\* result also has the constraints of unify and there is no result for an
\* entry on which unify fails; under AC1 and AC2 without the iteration the
\* constraints may be between the whole sums.
C12_IndexAgrees ==
  Checked =>
    /\ \A i \in 1..Len(EntriesAtCheck) :
         LET direct == DirectUnifier(EntriesAtCheck[i])
             found == ResultsFor(EntriesAtCheck[i])
         IN /\ Len(found) <= 1
            /\ direct.ok => /\ Len(found) = 1
                            /\ SameInstances(found[1], direct)
            /\ ExactRetrieval =>
                 IF direct.ok
                 THEN SameConstraints(found[1].constraints, direct.constraints)
                 ELSE found = <<>>
    /\ \A i \in 1..Len(uwa.results) :
         /\ \E j \in 1..Len(EntriesAtCheck) : uwa.results[i].data = EntriesAtCheck[j]
         /\ IF uwa.policy \in {AC1, AC2}
            THEN DifferOnlyAtConstraintsModAC(uwa.results[i].querySigma,
                                              uwa.results[i].resultSigma,
                                              uwa.results[i].constraints)
            ELSE DifferOnlyAtConstraints(uwa.results[i].querySigma,
                                         uwa.results[i].resultSigma,
                                         uwa.results[i].constraints)

\* top_level_constraints_2: under AC2 without the iteration the index gives
\* a+b+c != a+y+x where unify gives b+c != x+y
C12_Witness ==
  /\ Checked
  /\ uwa.policy = AC2
  /\ ~uwa.fixedPoint
  /\ uwa.query = TypedTermList(Plus3(a, y, x), IntSort)
  /\ Len(ResultsForSum) = 1
  /\ Len(ResultsForSum[1].constraints) = 1
  /\ IsDisequality(ResultsForSum[1].constraints[1], Plus3(a, b, c), Plus3(a, y, x))
  /\ DirectUnifier(TypedTermList(Plus3(a, b, c), IntSort)).ok
  /\ IsDisequality(DirectUnifier(TypedTermList(Plus3(a, b, c), IntSort)).constraints[1],
                   Plus(b, c), Plus(x, y))

====
